---------------------------- MODULE Spec2Model ----------------------------
(***************************************************************************)
(* anystore: key-space normalisation (anystore/logic/uri.py,               *)
(* anystore/store/keys.py, anystore/core/keys.py) and the Store facade     *)
(* (anystore/store/base.py) over the fsspec backends.                      *)
(*                                                                         *)
(* A Python str is modelled as a sequence of one-character strings.        *)
(***************************************************************************)
EXTENDS Integers, Sequences, FiniteSets, TLC

(***************************************************************************)
(* Bounds of the model.                                                    *)
(***************************************************************************)
\* a key of the key-mapping specification is the concatenation of at most
\* MaxTokens tokens
MaxTokens == 3
\* the clock of the store specification runs from 0 to MaxTime
MaxTime == 2

(***************************************************************************)
(* str helpers                                                             *)
(***************************************************************************)
SLASH == "/"
DOT == "."
SPACE == " "
PERCENT == "%"
COLON == ":"
\* CURRENT = "." (anystore/logic/uri.py)
CURRENT == <<".">>

\* s.startswith(p)
StartsWith(s, p) ==
    /\ Len(p) <= Len(s)
    /\ SubSeq(s, 1, Len(p)) = p

\* sub in s
Contains(s, sub) ==
    \E i \in 1..(Len(s) - Len(sub) + 1) : SubSeq(s, i, i + Len(sub) - 1) = sub

\* s[n:]
DropFirst(s, n) == SubSeq(s, n + 1, Len(s))

RECURSIVE LStripCh(_, _)
\* s.lstrip(c)
LStripCh(s, c) ==
    IF s # <<>> /\ Head(s) = c THEN LStripCh(Tail(s), c) ELSE s

RECURSIVE RStripCh(_, _)
\* s.rstrip(c)
RStripCh(s, c) ==
    IF s # <<>> /\ s[Len(s)] = c THEN RStripCh(SubSeq(s, 1, Len(s) - 1), c) ELSE s

\* s.strip(c)
StripCh(s, c) == RStripCh(LStripCh(s, c), c)

\* s.strip(): the only whitespace of the alphabet is the blank
StripWs(s) == StripCh(s, SPACE)

RECURSIVE SplitAcc(_, _, _)
SplitAcc(s, c, cur) ==
    IF s = <<>> THEN <<cur>>
    ELSE IF Head(s) = c THEN <<cur>> \o SplitAcc(Tail(s), c, <<>>)
    ELSE SplitAcc(Tail(s), c, Append(cur, Head(s)))

\* s.split(c): the list of segments, never empty
Split(s, c) == SplitAcc(s, c, <<>>)

RECURSIVE Join(_, _)
\* c.join(parts)
Join(parts, c) ==
    IF parts = <<>> THEN <<>>
    ELSE IF Len(parts) = 1 THEN parts[1]
    ELSE parts[1] \o <<c>> \o Join(Tail(parts), c)

\* [p for p in parts if p != x]
Without(parts, x) == SelectSeq(parts, LAMBDA p : p # x)

(***************************************************************************)
(* urllib.parse as the code uses it                                        *)
(***************************************************************************)
\* the hexadecimal digits that occur in keys of the model
HexDigits == {"0", "2", "3", "5", "A", "e", "f"}

\* the character a percent-escape %h1h2 stands for; the escapes a key of the
\* model can hold are %20 %25 %2e %2f and (from quote) %3A
HexChar(h1, h2) ==
    CASE h1 = "2" /\ h2 = "0" -> SPACE
      [] h1 = "2" /\ h2 = "5" -> PERCENT
      [] h1 = "2" /\ h2 = "e" -> DOT
      [] h1 = "2" /\ h2 = "f" -> SLASH
      [] h1 = "3" /\ h2 = "A" -> COLON
      [] OTHER -> "?"

RECURSIVE unquote(_)
\* urllib.parse.unquote: every %XX with two hex digits is decoded once, any
\* other "%" stays
unquote(s) ==
    IF s = <<>> THEN <<>>
    ELSE IF /\ Head(s) = PERCENT
            /\ Len(s) >= 3
            /\ s[2] \in HexDigits
            /\ s[3] \in HexDigits
         THEN <<HexChar(s[2], s[3])>> \o unquote(DropFirst(s, 3))
         ELSE <<Head(s)>> \o unquote(Tail(s))

\* the characters urllib.parse.quote leaves alone (letters, digits, "_.-~"
\* and the default safe "/")
QuoteSafe == {"x", "y", "h", "t", "p", "0", "2", "3", "5", "A", "e", "f", DOT, SLASH}

QuoteChar(c) ==
    CASE c \in QuoteSafe -> <<c>>
      [] c = SPACE -> <<"%", "2", "0">>
      [] c = PERCENT -> <<"%", "2", "5">>
      [] c = COLON -> <<"%", "3", "A">>
      [] OTHER -> <<c>>

RECURSIVE quote(_)
\* urllib.parse.quote
quote(s) == IF s = <<>> THEN <<>> ELSE QuoteChar(Head(s)) \o quote(Tail(s))

Letters == {"x", "y", "h", "t", "p", "e", "f", "A"}
SchemeChars == Letters \cup {"0", "2", "3", "5", "+", "-", DOT}

\* urlparse(s).scheme is not empty: after the leading blanks urlsplit drops,
\* a letter, then scheme characters only, then ":"
HasScheme(s) ==
    LET u == LStripCh(s, SPACE)
    IN \E i \in 2..Len(u) :
          /\ u[i] = COLON
          /\ u[1] \in Letters
          /\ \A j \in 1..(i - 1) : u[j] \in SchemeChars

(***************************************************************************)
(* results: a returned str or a raised exception                           *)
(***************************************************************************)
Ok(v) == [ok |-> TRUE, val |-> v, exc |-> "none", msg |-> "none"]
Raise(e, m) == [ok |-> FALSE, val |-> <<>>, exc |-> e, msg |-> m]

(***************************************************************************)
(* anystore/logic/uri.py                                                   *)
(***************************************************************************)
\* validate_uri without the traversal check
validate_uri_notraversal(uri) ==
    IF uri = <<>> THEN Raise("ValueError", "empty")
    ELSE LET u == unquote(StripWs(uri))
         IN IF u = <<>> THEN Raise("ValueError", "empty") ELSE Ok(u)

validate_uri(uri) ==
    IF uri = <<>> THEN Raise("ValueError", "empty")
    ELSE LET u == unquote(StripWs(uri))
         IN IF u = <<>> THEN Raise("ValueError", "empty")
            ELSE IF Contains(u, <<DOT, DOT, SLASH>>) THEN Raise("ValueError", "traversal")
            ELSE Ok(u)

\* validate_relative_uri without the checks for an absolute key
validate_relative_uri_noabs(uri) ==
    LET r == validate_uri(uri)
    IN IF ~r.ok THEN r
       ELSE LET u == RStripCh(unquote(r.val), SLASH)
            IN Ok(Join(Without(Split(u, SLASH), CURRENT), SLASH))

\* validate_relative_uri that keeps the "." segments
validate_relative_uri_keepdots(uri) ==
    LET r == validate_uri(uri)
    IN IF ~r.ok THEN r
       ELSE IF StartsWith(r.val, <<SLASH>>) THEN Raise("ValueError", "absolute")
       ELSE IF HasScheme(r.val) THEN Raise("ValueError", "absolute")
       ELSE Ok(RStripCh(unquote(r.val), SLASH))

\* validate_relative_uri that returns the key as given, not URL-decoded
validate_relative_uri_undecoded(uri) ==
    LET r == validate_uri(uri)
    IN IF ~r.ok THEN r
       ELSE IF StartsWith(r.val, <<SLASH>>) THEN Raise("ValueError", "absolute")
       ELSE IF HasScheme(r.val) THEN Raise("ValueError", "absolute")
       ELSE LET u == RStripCh(StripWs(uri), SLASH)
            IN Ok(Join(Without(Split(u, SLASH), CURRENT), SLASH))

validate_relative_uri(uri) ==
    LET r == validate_uri(uri)
    IN IF ~r.ok THEN r
       ELSE IF StartsWith(r.val, <<SLASH>>) THEN Raise("ValueError", "absolute")
       ELSE IF HasScheme(r.val) THEN Raise("ValueError", "absolute")
       ELSE LET u == RStripCh(unquote(r.val), SLASH)
            IN Ok(Join(Without(Split(u, SLASH), CURRENT), SLASH))

(***************************************************************************)
(* anystore/core/keys.py                                                   *)
(***************************************************************************)
validate_key(key) ==
    IF key = <<>> THEN Raise("ValueError", "empty")
    ELSE IF Contains(key, <<DOT, DOT, SLASH>>) THEN Raise("ValueError", "traversal")
    ELSE Ok(RStripCh(unquote(key), SLASH))

validate_relative_key(key) ==
    LET r == validate_key(key)
    IN IF ~r.ok THEN r
       ELSE IF StartsWith(r.val, <<SLASH>>) THEN Raise("ValueError", "absolute")
       ELSE IF HasScheme(r.val) THEN Raise("ValueError", "absolute")
       ELSE LET u == RStripCh(unquote(r.val), SLASH)
            IN Ok(Join(Without(Split(u, SLASH), CURRENT), SLASH))

(***************************************************************************)
(* The stores of the model: one per backend class that Keys.key_prefix     *)
(* tells apart.  `path` and `netloc` are urlparse(uri).path and .netloc,   *)
(* `base_path` is the second result of fsspec.url_to_fs(uri).              *)
(***************************************************************************)
\* file:///x/
LocalStore ==
    [fs |-> "local", uri |-> <<"f", "i", "l", "e", ":", "/", "/", "/", "x", "/">>,
     path |-> <<"/", "x", "/">>, netloc |-> <<>>, base_path |-> <<"/", "x">>]
\* file:///x..  (a directory whose name ends in two dots)
LocalDotsStore ==
    [fs |-> "local", uri |-> <<"f", "i", "l", "e", ":", "/", "/", "/", "x", ".", ".">>,
     path |-> <<"/", "x", ".", ".">>, netloc |-> <<>>, base_path |-> <<"/", "x", ".", ".">>]
\* memory://x
MemoryStore ==
    [fs |-> "memory", uri |-> <<"m", "e", "m", "o", "r", "y", ":", "/", "/", "x">>,
     path |-> <<>>, netloc |-> <<"x">>, base_path |-> <<"/", "x">>]
\* redis://h/x
RedisStore ==
    [fs |-> "redis", uri |-> <<"r", "e", "d", "i", "s", ":", "/", "/", "h", "/", "x">>,
     path |-> <<"/", "x">>, netloc |-> <<"h">>, base_path |-> <<"h", "/", "x">>]
\* sqlite:///x
SqlStore ==
    [fs |-> "sql", uri |-> <<"s", "q", "l", "i", "t", "e", ":", "/", "/", "/", "x">>,
     path |-> <<"/", "x">>, netloc |-> <<>>, base_path |-> <<>>]
\* anystore+http://h/x
ApiStore ==
    [fs |-> "api",
     uri |-> <<"a", "n", "y", "s", "t", "o", "r", "e", "+", "h", "t", "t", "p", ":", "/", "/", "h", "/", "x">>,
     path |-> <<"/", "x">>, netloc |-> <<"h">>, base_path |-> <<>>]
\* http://h/x
HttpStore ==
    [fs |-> "http", uri |-> <<"h", "t", "t", "p", ":", "/", "/", "h", "/", "x">>,
     path |-> <<"/", "x">>, netloc |-> <<"h">>, base_path |-> <<>>]
\* s3://h/x
GenericStore ==
    [fs |-> "generic", uri |-> <<"s", "3", ":", "/", "/", "h", "/", "x">>,
     path |-> <<"/", "x">>, netloc |-> <<"h">>, base_path |-> <<"h", "/", "x">>]

KeyStores ==
    {LocalStore, LocalDotsStore, MemoryStore, RedisStore, SqlStore, ApiStore,
     HttpStore, GenericStore}

\* _ANYSTORE_PREFIX_RE.sub("", path): a leading "anystore+" is removed
ApiStripProtocol(path) ==
    LET pre == <<"a", "n", "y", "s", "t", "o", "r", "e", "+">>
    IN IF StartsWith(path, pre) THEN DropFirst(path, Len(pre)) ELSE path

(***************************************************************************)
(* anystore/store/keys.py: class Keys                                      *)
(***************************************************************************)
key_prefix(store) ==
    IF store.fs = "local" THEN RStripCh(store.path, SLASH)
    ELSE LET path == StripCh(store.path, SLASH)
         IN CASE store.fs = "memory" -> StripCh(store.base_path, SLASH)
              [] store.fs = "redis" -> path
              [] store.fs = "sql" -> <<>>
              [] store.fs = "api" -> ApiStripProtocol(store.uri)
              [] store.fs = "http" -> store.uri
              [] OTHER -> IF path # <<>> THEN store.netloc \o <<SLASH>> \o path
                          ELSE store.netloc

to_fs_key(store, key) ==
    LET r == validate_relative_uri(key)
    IN IF ~r.ok THEN r
       ELSE IF key_prefix(store) # <<>>
            THEN IF r.val # <<>> THEN Ok(key_prefix(store) \o <<SLASH>> \o r.val)
                 ELSE Ok(key_prefix(store))
            ELSE Ok(r.val)

\* from_fs_key that leaves the "/" after the prefix in place
from_fs_key_nostrip(store, key) ==
    LET r == validate_uri(key)
    IN IF ~r.ok THEN r
       ELSE LET k == IF store.fs = "memory" THEN LStripCh(r.val, SLASH) ELSE r.val
            IN IF StartsWith(k, key_prefix(store))
               THEN Ok(DropFirst(k, Len(key_prefix(store))))
               ELSE Raise("ValueError", "nobase")

from_fs_key(store, key) ==
    LET r == validate_uri(key)
    IN IF ~r.ok THEN r
       ELSE LET k == IF store.fs = "memory" THEN LStripCh(r.val, SLASH) ELSE r.val
            IN IF StartsWith(k, key_prefix(store))
               THEN Ok(StripCh(DropFirst(k, Len(key_prefix(store))), SLASH))
               ELSE Raise("ValueError", "nobase")

(***************************************************************************)
(* anystore/core/keys.py: class Keys                                       *)
(***************************************************************************)
core_key_prefix(store) ==
    IF store.fs = "local" THEN RStripCh(store.path, SLASH)
    ELSE LET path == StripCh(store.path, SLASH)
         IN CASE store.fs = "memory" -> StripCh(store.base_path, SLASH)
              [] store.fs = "redis" -> path
              [] store.fs = "sql" -> <<>>
              [] store.fs \in {"http", "api"} -> store.uri
              [] OTHER -> IF path # <<>> THEN store.netloc \o <<SLASH>> \o path
                          ELSE store.netloc

core_to_fs_key(store, key) ==
    LET r == validate_relative_key(key)
    IN IF ~r.ok THEN r
       ELSE IF core_key_prefix(store) # <<>>
            THEN IF r.val # <<>> THEN Ok(core_key_prefix(store) \o <<SLASH>> \o r.val)
                 ELSE Ok(core_key_prefix(store))
            ELSE Ok(r.val)

core_from_fs_key(store, key) ==
    LET r == validate_key(key)
    IN IF ~r.ok THEN r
       ELSE IF StartsWith(r.val, core_key_prefix(store))
            THEN Ok(StripCh(DropFirst(r.val, Len(core_key_prefix(store))), SLASH))
            ELSE Raise("ValueError", "nobase")

(***************************************************************************)
(* Inputs of the key-mapping specification                                 *)
(***************************************************************************)
Tokens ==
    { <<"x">>, <<SLASH>>, <<DOT>>, <<SPACE>>, <<COLON>>,
      <<"%", "2", "0">>, <<"%", "2", "e">>, <<"%", "2", "f">>, <<"%", "2", "5">>,
      <<"2", "f">>, <<DOT, DOT, SLASH>> }

RECURSIVE KeysUpTo(_)
KeysUpTo(n) ==
    IF n = 0 THEN {<<>>}
    ELSE LET shorter == KeysUpTo(n - 1)
         IN shorter \cup {k \o t : k \in shorter, t \in Tokens}

InputKeys == KeysUpTo(MaxTokens)

NoResult == [ok |-> FALSE, val |-> <<>>, exc |-> "none", msg |-> "notrun"]

(***************************************************************************)
(* State.                                                                  *)
(*   key mapping:  kstore  the store a Keys object is built for            *)
(*                 kin     the key handed to it                            *)
(*                 kpc     which conversion has run                        *)
(*                 kfs     result of to_fs_key                             *)
(*                 krel    result of from_fs_key                           *)
(*   store:        cfg     the StoreModel fields of the Store              *)
(*                 items   backend contents: backend path -> item          *)
(*                         [data, created, putat, asked]: the stored bytes,*)
(*                         the timestamp the backend reports, and (history)*)
(*                         the time of the last write and the ttl that     *)
(*                         write was handed                                *)
(*                 now     the clock (seconds)                             *)
(*                 dirs    the directories the Store has made on the local *)
(*                         file system                                     *)
(*                 last    the last Store call and how it ended            *)
(*   local_path:   scope   the local_path / local_open context of the      *)
(*                         Store: where it stands, the path it yielded,    *)
(*                         its temporary store                             *)
(*   threads:      threads the threads that use the Store: where each      *)
(*                         stands in its call, what it holds, and          *)
(*                         (history) what it has put and got               *)
(*   caches:       cached  the cached properties of the Store (_fs, _keys, *)
(*                         key_prefix of each Keys object), which thread   *)
(*                         is computing one, and (history) the value each  *)
(*                         thread was handed                               *)
(*                 store_cache  the module-level _store_cache and          *)
(*                         _store_lock of get_store, and where each thread *)
(*                         stands in its get_store call                    *)
(*   beside the Store:                                                     *)
(*                 writer  one write handle of the remote API file system: *)
(*                         its buffer, the queue to the upload, the upload *)
(*                         and what the server received, and (history)     *)
(*                         all bytes written and all chunks enqueued       *)
(*                 target  the second Store of mirror(): its               *)
(*                         configuration c, its items and directories      *)
(*                 rate    one RateLimit resource: its interval and limit, *)
(*                         the counts its store holds per time slot, the   *)
(*                         updates that returned, and each worker's place  *)
(*                         in update()                                     *)
(*                 lines   the content and chunk size iter_lines is run    *)
(*                         with, and what it yielded for a seekable and    *)
(*                         for a non-seekable handle                       *)
(***************************************************************************)
VARIABLES kstore, kin, kpc, kfs, krel, cfg, items, dirs, now, last, scope, threads,
          cached, store_cache, writer, target, rate, lines

keyvars == <<kstore, kin, kpc, kfs, krel>>
cachevars == <<cached, store_cache>>
sidevars == <<writer, target, rate, lines>>
storevars == <<cfg, items, dirs, now, last, scope, threads, cachevars, sidevars>>
vars == <<kstore, kin, kpc, kfs, krel, cfg, items, dirs, now, last, scope, threads,
          cached, store_cache, writer, target, rate, lines>>

(***************************************************************************)
(* Store: values and the codec (anystore/logic/serialize.py)               *)
(***************************************************************************)
\* a bytes value, a str value, False and None
Values == {"bytes", "str", "false", "none"}
NONE == "none"

\* to_store(value, ...): the stored bytes of a value
to_store(value) == <<"enc", value>>
\* from_store(data, ...): the value of stored bytes
from_store(data) == data[2]

\* a configured default_ttl of the model, in seconds (0: not configured)
DefaultTtl == 1

\* the backends a Store of the model runs on
StoreBackends == {LocalStore, MemoryStore, RedisStore, SqlStore}

\* the keys the Store calls of the model use: two valid keys, and an absolute key
StoreKeys == {<<"x">>, <<"y">>, <<SLASH, "x">>}

\* keys no operation accepts: empty, absolute, with a scheme, with "../"
InvalidKeys == {<<>>, <<SLASH, "x">>, <<"x", COLON, SLASH, SLASH, "x">>, <<DOT, DOT, SLASH, "x">>}

\* the keys of the calls at a fixed time: a key at the top of the store, a key
\* in a folder, and the keys no operation accepts
CallKeys == {<<"x">>, <<"y", SLASH, "x">>} \cup InvalidKeys

\* the keys of the listing specification: a key at the top of the store and
\* two keys in one folder
ListKeys == {<<"x">>, <<"y", SLASH, "x">>, <<"y", SLASH, "z">>}

STAR == "*"

\* the prefix arguments of iterate_keys: none, a folder, a name nothing is under
ListPrefixes == {<<>>, <<"y">>, <<"w">>}
\* the exclude_prefix arguments: none, a folder, the start of a key
ListExcludes == {<<>>, <<"y">>, <<"x">>}
\* the glob arguments: none, "*", "**", "*/x", "**/x", "x"
ListGlobs ==
    {<<>>, <<STAR>>, <<STAR, STAR>>, <<STAR, SLASH, "x">>, <<STAR, STAR, SLASH, "x">>, <<"x">>}

(***************************************************************************)
(* The backends: fsspec LocalFileSystem and MemoryFileSystem,              *)
(* anystore/fs/redis.py, anystore/fs/sql.py                                *)
(***************************************************************************)
\* SqlFileSystem._strip_protocol(path).strip("/")
SqlStripProtocol(path) ==
    LET pre == <<"s", "q", "l", ":", "/", "/">>
    IN StripCh(StripCh(IF StartsWith(path, pre) THEN DropFirst(path, Len(pre)) ELSE path,
                       SLASH), SLASH)

\* RedisFileSystem._strip_protocol(path).strip("/")
RedisStripProtocol(path) ==
    LET pre == <<"r", "e", "d", "i", "s", ":", "/", "/">>
    IN StripCh(StripCh(IF StartsWith(path, pre) THEN DropFirst(path, Len(pre)) ELSE path,
                       SLASH), SLASH)

\* the path under which a backend files the fs key it is handed
BackendPath(store, fs_key) ==
    CASE store.fs = "sql" -> SqlStripProtocol(fs_key)
      [] store.fs = "redis" -> RedisStripProtocol(fs_key)
      [] store.fs = "memory" -> <<SLASH>> \o StripCh(fs_key, SLASH)
      [] OTHER -> RStripCh(fs_key, SLASH)

Present(its, path) == path \in DOMAIN its

Remove(its, path) == [p \in (DOMAIN its) \ {path} |-> its[p]]

Store1(its, path, item) ==
    [p \in (DOMAIN its) \cup {path} |-> IF p = path THEN item ELSE its[p]]

\* the directories above a path
Ancestors(path) ==
    {SubSeq(path, 1, j - 1) : j \in {i \in 2..Len(path) : path[i] = SLASH}}

\* the directories ls and info report on a flat store: every path above an item
ImplicitDirs(its) == UNION {Ancestors(p) : p \in DOMAIN its}

\* the items below a directory path ("": all of them)
Below(its, path) ==
    {p \in DOMAIN its : path = <<>> \/ StartsWith(p, path \o <<SLASH>>)}

\* fs.info(path) reports a directory: one made on the local file system; on
\* the flat stores every path above an item
IsDirectory(store, its, ds, path) ==
    /\ ~Present(its, path)
    /\ IF store.fs = "local" THEN path \in ds ELSE path \in ImplicitDirs(its)

\* the timestamp the local file system reports for a directory, taken as that
\* of the newest item below it (0: nothing is below)
dir_created(its, path) ==
    IF Below(its, path) = {} THEN 0
    ELSE CHOOSE m \in {its[p].created : p \in Below(its, path)} :
            \A p \in Below(its, path) : its[p].created <= m

\* fs.rm_file(path): the local and the memory file system raise on a missing
\* file; Redis DEL and SQL DELETE do not
fs_rm_file(store, its, path) ==
    IF Present(its, path) THEN [items |-> Remove(its, path), exc |-> "none"]
    ELSE IF store.fs \in {"redis", "sql"} THEN [items |-> its, exc |-> "none"]
    ELSE [items |-> its, exc |-> "FileNotFoundError"]

\* SqlFileSystem._upsert: INSERT sets the timestamp column (server default
\* now()); when the key exists the UPDATE sets value and ttl only
sql_upsert(its, path, data, ttl, t) ==
    IF Present(its, path)
    THEN Store1(its, path, [data |-> data, created |-> its[path].created,
                            putat |-> t, asked |-> ttl])
    ELSE Store1(its, path, [data |-> data, created |-> t, putat |-> t, asked |-> ttl])

\* with fs.open(key, "wb", ttl=ttl) as o: o.write(data)
\* no backend reads the ttl argument; Redis keeps no timestamp
fs_write(store, its, path, data, ttl, t) ==
    CASE store.fs = "sql" -> sql_upsert(its, path, data, ttl, t)
      [] store.fs = "redis" ->
            Store1(its, path, [data |-> data, created |-> 0, putat |-> t, asked |-> ttl])
      [] OTHER ->
            Store1(its, path, [data |-> data, created |-> t, putat |-> t, asked |-> ttl])

\* Info(**fs.info(path)).created_at is None: Redis reports no timestamp
NoCreatedAt(store) == store.fs = "redis"

(***************************************************************************)
(* anystore/store/base.py: class Store                                     *)
(* Every operation is a function of (cfg, items, now, arguments) to        *)
(* [items, exc, ret]: the backend contents afterwards, the exception       *)
(* raised ("none": returned normally) and the value returned.              *)
(***************************************************************************)
Res(its, e, r) == [items |-> its, exc |-> e, ret |-> r]

\* the strings the Store of the model hands to its Keys object: the keys of
\* the calls and, in _check_ttl, the fs keys made from them
KeyArgs ==
    (StoreKeys \cup CallKeys \cup ListKeys \cup ListPrefixes)
        \cup {to_fs_key(st, k).val :
                 st \in StoreBackends,
                 k \in StoreKeys \cup CallKeys \cup ListKeys \cup ListPrefixes}

\* Store._keys (cached Keys(self.uri)): its to_fs_key, tabulated over KeyArgs
KeysTable == [st \in StoreBackends |-> [k \in KeyArgs |-> to_fs_key(st, k)]]
keys_to_fs_key(store, key) == KeysTable[store][key]

\* the backend path of every fs key the Store makes, tabulated likewise
PathTable == [st \in StoreBackends |-> [k \in KeyArgs |-> BackendPath(st, k)]]
fs_path(store, fs_key) == PathTable[store][fs_key]

\* a _check_ttl that removes every item it finds expired
check_ttl_path_purge(c, its, t, path, msg_ok, raise_on_nonexist) ==
    IF c.default_ttl = 0 \/ ~Present(its, path) \/ NoCreatedAt(c.store)
          \/ t - its[path].created <= c.default_ttl
    THEN Res(its, "none", TRUE)
    ELSE Res([p \in {q \in DOMAIN its : t - its[q].created <= c.default_ttl}
                 |-> its[p]],
             "none", FALSE)

\* Store._check_ttl, once the backend path of fs_key is known; msg_ok: the
\* message of DoesNotExist, to_fs_key(fs_key), can be built
check_ttl_path(c, its, t, path, msg_ok, raise_on_nonexist) ==
    IF c.default_ttl = 0 THEN Res(its, "none", TRUE)
    ELSE IF ~Present(its, path)
         THEN IF raise_on_nonexist
              THEN IF msg_ok THEN Res(its, "DoesNotExist", FALSE)
                   ELSE Res(its, "ValueError", FALSE)
              ELSE Res(its, "none", FALSE)
         ELSE IF NoCreatedAt(c.store) THEN Res(its, "none", TRUE)
         ELSE IF t - its[path].created > c.default_ttl
              THEN Res(fs_rm_file(c.store, its, path).items, "none", FALSE)
              ELSE Res(its, "none", TRUE)

\* Store._check_ttl(fs_key, raise_on_nonexist); ret: TRUE valid, FALSE expired/absent
check_ttl(c, its, t, fs_key, raise_on_nonexist) ==
    check_ttl_path(c, its, t, fs_path(c.store, fs_key),
                   keys_to_fs_key(c.store, fs_key).ok, raise_on_nonexist)

\* Store.get after self._check_ttl(key, raise_on_nonexist) returned or raised (chk)
get_checked(path, chk, raise_on_nonexist) ==
    IF chk.exc # "none" THEN Res(chk.items, chk.exc, NONE)
    ELSE IF Present(chk.items, path)
         THEN Res(chk.items, "none", from_store(chk.items[path].data))
         ELSE IF raise_on_nonexist THEN Res(chk.items, "DoesNotExist", NONE)
              ELSE Res(chk.items, "none", NONE)

\* Store.get after key = self._keys.to_fs_key(key) returned or raised (fk)
get_fs_key(c, its, t, fk, raise_on_nonexist) ==
    IF ~fk.ok THEN Res(its, "ValueError", NONE)
    ELSE get_checked(fs_path(c.store, fk.val),
                     check_ttl(c, its, t, fk.val, raise_on_nonexist),
                     raise_on_nonexist)

\* Store.get(key, raise_on_nonexist); raise_arg is "true", "false" or "default" (None)
get(c, its, t, key, raise_arg) ==
    get_fs_key(c, its, t, keys_to_fs_key(c.store, key),
               IF raise_arg = "default" THEN c.raise_on_nonexist ELSE raise_arg = "true")

\* Store.delete after self._fs.rm_file(key) returned or raised (rm)
delete_removed(rm, ignore_errors) ==
    IF rm.exc # "none" /\ ~ignore_errors THEN Res(rm.items, rm.exc, NONE)
    ELSE Res(rm.items, "none", NONE)

\* fs.rm_file(path) where path may be a directory: os.remove of the local
\* file system raises IsADirectoryError
fs_rm_path(store, its, ds, path) ==
    IF store.fs = "local" /\ IsDirectory(store, its, ds, path)
    THEN [items |-> its, exc |-> "IsADirectoryError"]
    ELSE fs_rm_file(store, its, path)

\* Store.delete after key = self._keys.to_fs_key(key) returned or raised (fk)
delete_fs_key(c, its, ds, fk, ignore_errors) ==
    IF ~fk.ok THEN Res(its, "ValueError", NONE)
    ELSE delete_removed(fs_rm_path(c.store, its, ds, fs_path(c.store, fk.val)),
                        ignore_errors)

\* Store.delete(key, ignore_errors)
delete(c, its, ds, key, ignore_errors) ==
    delete_fs_key(c, its, ds, keys_to_fs_key(c.store, key), ignore_errors)

\* Store.pop after self.delete(key) returned or raised (d)
pop_deleted(g, d) ==
    IF d.exc # "none" THEN d ELSE Res(d.items, "none", g.ret)

\* Store.pop after self.get(key, ...) returned or raised (g)
pop_got(c, ds, key, g) ==
    IF g.exc # "none" THEN g ELSE pop_deleted(g, delete(c, g.items, ds, key, FALSE))

\* Store.pop(key, raise_on_nonexist)
pop(c, its, ds, t, key, raise_arg) ==
    pop_got(c, ds, key, get(c, its, t, key, raise_arg))

\* Store.exists after self._check_ttl(key, raise_on_nonexist=False) returned (chk)
exists_checked(path, chk) ==
    IF ~chk.ret THEN Res(chk.items, "none", "False")
    ELSE IF Present(chk.items, path) THEN Res(chk.items, "none", "True")
         ELSE Res(chk.items, "none", "False")

\* Store.exists on a directory: fs.exists answers True. Before that
\* _check_ttl finds no timestamp on the flat stores; on the local file system
\* it finds one, and rm_file of a directory it takes for expired raises
exists_directory(c, its, t, path) ==
    IF c.default_ttl # 0 /\ c.store.fs = "local"
          /\ t - dir_created(its, path) > c.default_ttl
    THEN Res(its, "IsADirectoryError", NONE)
    ELSE Res(its, "none", "True")

\* Store.exists after key = self._keys.to_fs_key(key) returned or raised (fk)
exists_fs_key(c, its, ds, t, fk) ==
    IF ~fk.ok THEN Res(its, "ValueError", NONE)
    ELSE IF IsDirectory(c.store, its, ds, fs_path(c.store, fk.val))
         THEN exists_directory(c, its, t, fs_path(c.store, fk.val))
         ELSE exists_checked(fs_path(c.store, fk.val),
                             check_ttl(c, its, t, fk.val, FALSE))

\* Store.exists(key)
exists(c, its, ds, t, key) ==
    exists_fs_key(c, its, ds, t, keys_to_fs_key(c.store, key))

\* Store.put without the early return for None
put_fs_key_storenone(c, its, t, fk, value, ttl) ==
    IF ~fk.ok THEN Res(its, "ValueError", NONE)
    ELSE Res(fs_write(c.store, its, fs_path(c.store, fk.val), to_store(value),
                      IF ttl # 0 THEN ttl ELSE c.default_ttl, t),
             "none", NONE)

\* Store.put after key = self._keys.to_fs_key(key) returned or raised (fk);
\* ttl = ttl or self.default_ttl or None (0 stands for None)
put_fs_key(c, its, t, fk, value, ttl) ==
    IF value = NONE /\ ~c.store_none_values THEN Res(its, "none", NONE)
    ELSE IF ~fk.ok THEN Res(its, "ValueError", NONE)
    ELSE Res(fs_write(c.store, its, fs_path(c.store, fk.val), to_store(value),
                      IF ttl # 0 THEN ttl ELSE c.default_ttl, t),
             "none", NONE)

\* Store.put(key, value, ttl=ttl)
put(c, its, t, key, value, ttl) ==
    put_fs_key(c, its, t, keys_to_fs_key(c.store, key), value, ttl)

\* Path(fs_key).parent
path_parent(fs_key) ==
    Join(SubSeq(Split(fs_key, SLASH), 1, Len(Split(fs_key, SLASH)) - 1), SLASH)

\* LocalFileSystem.mkdirs(path, exist_ok=True): path and the directories above
\* it exist afterwards (the root always does)
fs_mkdirs(ds, path) ==
    ds \cup {SubSeq(path, 1, i) : i \in {j \in 1..Len(path) :
                                          /\ path[j] # SLASH
                                          /\ j = Len(path) \/ path[j + 1] = SLASH}}

\* Store.ensure_parent(fs_key)
ensure_parent(c, ds, fs_key) ==
    IF c.store.fs = "local" THEN fs_mkdirs(ds, path_parent(fs_key)) ELSE ds

\* the directories Store.put leaves, after key = self._keys.to_fs_key(key) (fk)
put_made_fs_key(c, ds, fk, value) ==
    IF value = NONE /\ ~c.store_none_values THEN ds
    ELSE IF ~fk.ok THEN ds
    ELSE ensure_parent(c, ds, fk.val)

\* the directories Store.put(key, value) leaves
put_made(c, ds, key, value) ==
    put_made_fs_key(c, ds, keys_to_fs_key(c.store, key), value)

\* fs.open(path, "rb"): every backend raises FileNotFoundError on a missing item
fs_open_read(its, path) ==
    IF Present(its, path) THEN [exc |-> "none", data |-> its[path].data]
    ELSE [exc |-> "FileNotFoundError", data |-> <<>>]

\* Store.stream after self.open(key) and the iteration returned or raised (o)
stream_opened(c, its, o, raise_arg) ==
    IF o.exc = "none" THEN Res(its, "none", from_store(o.data))
    ELSE IF raise_arg = "true" \/ c.raise_on_nonexist THEN Res(its, "DoesNotExist", NONE)
         ELSE Res(its, "none", NONE)

\* Store.stream after key = self._keys.to_fs_key(key) in Store.open (fk)
stream_fs_key(c, its, fk, raise_arg) ==
    IF ~fk.ok THEN Res(its, "ValueError", NONE)
    ELSE stream_opened(c, its, fs_open_read(its, fs_path(c.store, fk.val)), raise_arg)

\* Store.stream(key, raise_on_nonexist), consumed to its end; there is no
\* _check_ttl on this path
stream(c, its, key, raise_arg) ==
    stream_fs_key(c, its, keys_to_fs_key(c.store, key), raise_arg)

\* Store.info that hands the backend whatever to_fs_key left, valid or not
info_fs_key_unvalidated(c, its, ds, fk) ==
    IF fk.ok /\ Present(its, fs_path(c.store, fk.val)) THEN Res(its, "none", "Stats")
    ELSE Res(its, "FileNotFoundError", NONE)

\* Store.info after fs_key = self._keys.to_fs_key(key) returned or raised (fk);
\* fs.info(path) raises FileNotFoundError on every backend when nothing is at
\* path, and describes a directory when path is one
info_fs_key(c, its, ds, fk) ==
    IF ~fk.ok THEN Res(its, "ValueError", NONE)
    ELSE IF Present(its, fs_path(c.store, fk.val)) THEN Res(its, "none", "Stats")
    ELSE IF IsDirectory(c.store, its, ds, fs_path(c.store, fk.val))
         THEN Res(its, "none", "DirectoryStats")
         ELSE Res(its, "FileNotFoundError", NONE)

\* Store.info(key)
info(c, its, ds, key) == info_fs_key(c, its, ds, keys_to_fs_key(c.store, key))

\* Store.checksum after self._fs.open(key, mode="rb") returned or raised (o)
checksum_opened(its, o) ==
    IF o.exc = "none" THEN Res(its, "none", "checksum") ELSE Res(its, o.exc, NONE)

\* Store.checksum after key = self._keys.to_fs_key(key) returned or raised (fk)
checksum_fs_key(c, its, fk) ==
    IF ~fk.ok THEN Res(its, "ValueError", NONE)
    ELSE checksum_opened(its, fs_open_read(its, fs_path(c.store, fk.val)))

\* Store.checksum(key)
checksum(c, its, key) == checksum_fs_key(c, its, keys_to_fs_key(c.store, key))

\* with Store.open(key, "rb") as fh: fh.read(), after to_fs_key (fk)
open_read_opened(its, o) ==
    IF o.exc = "none" THEN Res(its, "none", from_store(o.data)) ELSE Res(its, o.exc, NONE)

open_read_fs_key(c, its, fk) ==
    IF ~fk.ok THEN Res(its, "ValueError", NONE)
    ELSE open_read_opened(its, fs_open_read(its, fs_path(c.store, fk.val)))

open_read(c, its, key) == open_read_fs_key(c, its, keys_to_fs_key(c.store, key))

\* with Store.open(key, "wb") as fh: fh.write(data), after to_fs_key (fk); the
\* bytes written are stored as they are
open_write_fs_key(c, its, t, fk, data) ==
    IF ~fk.ok THEN Res(its, "ValueError", NONE)
    ELSE Res(fs_write(c.store, its, fs_path(c.store, fk.val), to_store(data), 0, t),
             "none", NONE)

open_write(c, its, t, key, data) ==
    open_write_fs_key(c, its, t, keys_to_fs_key(c.store, key), data)

\* the directories Store.open(key, "wb") leaves, after to_fs_key (fk)
open_made_fs_key(c, ds, fk) ==
    IF ~fk.ok THEN ds ELSE ensure_parent(c, ds, fk.val)

open_made(c, ds, key) == open_made_fs_key(c, ds, keys_to_fs_key(c.store, key))

\* Store.touch after self.put(key, now) returned or raised (p)
touch_put(p, t) ==
    IF p.exc # "none" THEN p ELSE Res(p.items, "none", t)

\* Store.touch(key): the value put is the current timestamp
touch(c, its, t, key) == touch_put(put(c, its, t, key, "now", 0), t)

(***************************************************************************)
(* Listing: fsspec glob_translate, AbstractFileSystem.find and glob over   *)
(* the ls of anystore/fs/redis.py and anystore/fs/sql.py (and of the       *)
(* memory file system), AnyLocalFileSystem.iter_find (anystore/fs/local.py)*)
(* and Store.iterate_keys. A missing argument is the empty string.         *)
(***************************************************************************)
\* fsspec has_magic(path): the path holds a glob wildcard
has_magic(path) == \E i \in 1..Len(path) : path[i] \in {STAR, "?", "["}

\* the first k segments are what "(?:.+/)?" can take: nothing, or a non-empty
\* string and its "/"
AnySegments(segs, k) == k = 0 \/ Join(SubSeq(segs, 1, k), SLASH) # <<>>

RECURSIVE glob_match(_, _)
\* re.fullmatch(glob_translate(pattern), path), pattern and path split at "/":
\* a part "*" is one non-empty segment ("[^/]+"), a part "**" is any number of
\* segments ("(?:.+/)?", at the end ".*"), any other part is the segment
\* itself (the patterns of the model hold no wildcard inside a name)
glob_match(parts, segs) ==
    IF parts = <<>> THEN segs = <<>>
    ELSE IF segs = <<>> THEN FALSE
    ELSE IF Head(parts) = <<STAR, STAR>>
         THEN IF Len(parts) = 1 THEN TRUE
              ELSE \E k \in 0..(Len(segs) - 1) :
                      /\ AnySegments(segs, k)
                      /\ glob_match(Tail(parts), SubSeq(segs, k + 1, Len(segs)))
    ELSE IF Head(parts) = <<STAR>>
         THEN Head(segs) # <<>> /\ glob_match(Tail(parts), Tail(segs))
    ELSE Head(parts) = Head(segs) /\ glob_match(Tail(parts), Tail(segs))

\* AbstractFileSystem.find(path): the files walk meets below path; path
\* itself when nothing is below it and it is a file
fs_find(its, path) ==
    IF Below(its, path) = {} /\ Present(its, path) THEN {path} ELSE Below(its, path)

\* AbstractFileSystem.glob(path) on a pattern with a wildcard, path stripped
\* of its protocol: find(root, withdirs=True) filtered by the pattern; files
\* and directories match alike, a directory with "/" appended when the
\* pattern ends in "/**"
fs_glob_magic(its, path) ==
    {p \in DOMAIN its : glob_match(Split(path, SLASH), Split(p, SLASH))}
        \cup {d \in ImplicitDirs(its) :
                 glob_match(Split(path, SLASH),
                            Split(IF Len(path) >= 3
                                        /\ SubSeq(path, Len(path) - 2, Len(path))
                                              = <<SLASH, STAR, STAR>>
                                  THEN d \o <<SLASH>> ELSE d, SLASH))}

\* glob that hands back a path without a wildcard whether it exists or not
fs_glob_unchecked(its, path) ==
    IF has_magic(path) THEN fs_glob_magic(its, path) ELSE {path}

\* AbstractFileSystem.glob(path), path stripped of its protocol: without a
\* wildcard the path itself when it exists, as a file or as a directory
fs_glob(its, path) ==
    IF has_magic(path) THEN fs_glob_magic(its, path)
    ELSE IF Present(its, path) \/ path \in ImplicitDirs(its) THEN {path}
    ELSE {}

\* os.path.basename(path)
basename(path) == Split(path, SLASH)[Len(Split(path, SLASH))]

\* AnyLocalFileSystem.iter_find: the os.walk over the directory path
iter_find_walk(its, ds, path, glob) ==
    {p \in Below(its, path) :
        glob = <<>> \/ glob_match(Split(glob, SLASH),
                                  Split(DropFirst(p, Len(path) + 1), SLASH))}

\* AnyLocalFileSystem.iter_find(path, glob), path stripped of its protocol
iter_find(its, ds, path, glob) ==
    IF Present(its, path)
    THEN IF glob = <<>> \/ glob_match(Split(glob, SLASH), <<basename(path)>>)
         THEN {path} ELSE {}
    ELSE IF path \notin ds THEN {}
    ELSE iter_find_walk(its, ds, path, glob)

\* Store.iterate_keys: the loop over the backend keys after every
\* self._keys.from_fs_key(key) returned or raised (rels)
iterate_keys_yield(its, rels, exclude_prefix) ==
    IF \E r \in rels : ~r.ok THEN Res(its, "ValueError", {})
    ELSE Res(its, "none",
             {r.val : r \in {q \in rels : exclude_prefix = <<>>
                                            \/ ~StartsWith(q.val, exclude_prefix)}})

\* Store.iterate_keys once the backend has listed keys
iterate_keys_listed(c, its, keys, exclude_prefix) ==
    iterate_keys_yield(its, {from_fs_key(c.store, k) : k \in keys}, exclude_prefix)

\* Store.iterate_keys once the search base is known (fk): iter_find where the
\* file system has it (the local one), else glob or find
iterate_keys_base(c, its, ds, fk, exclude_prefix, glob) ==
    IF ~fk.ok THEN Res(its, "ValueError", {})
    ELSE IF c.store.fs = "local"
         THEN iterate_keys_listed(c, its,
                  iter_find(its, ds, BackendPath(c.store, fk.val), glob), exclude_prefix)
    ELSE IF glob # <<>>
         THEN iterate_keys_listed(c, its,
                  fs_glob(its, BackendPath(c.store, fk.val \o <<SLASH>> \o glob)),
                  exclude_prefix)
    ELSE iterate_keys_listed(c, its,
             fs_find(its, BackendPath(c.store, fk.val)), exclude_prefix)

\* Store.iterate_keys(prefix, exclude_prefix, glob), consumed to its end; ret
\* is the set of the keys yielded
iterate_keys(c, its, ds, prefix, exclude_prefix, glob) ==
    iterate_keys_base(c, its, ds,
                      IF prefix # <<>> THEN keys_to_fs_key(c.store, prefix)
                      ELSE Ok(key_prefix(c.store)),
                      exclude_prefix, glob)

(***************************************************************************)
(* Store.local_path and Store.local_open (anystore/store/base.py),         *)
(* UriResource.local_path (anystore/core/resource.py), get_virtual_store   *)
(* (anystore/store/virtual.py)                                             *)
(* A context is [pc, op, key, path, exc, tmp, pending]: where it stands    *)
(* ("body": inside the with block, "done": left), the path yielded, the    *)
(* exception it left with, the temporary directory ("none": never made,    *)
(* "made": on disk, "removed"), and whether the get_virtual_store          *)
(* generator is suspended with nobody left to exit it.                     *)
(***************************************************************************)
FILE == <<"f", "i", "l", "e", COLON, SLASH, SLASH>>

\* ensure_uri(uri) of an absolute path: unquote(Path(uri).absolute().as_uri())
ensure_uri_path(uri) == unquote(FILE \o quote(validate_uri(uri).val))

\* uri_to_path(uri) of an absolute path: what follows "file://"
uri_to_path(uri) ==
    IF DropFirst(ensure_uri_path(uri), Len(FILE)) = <<>> THEN <<SLASH>>
    ELSE DropFirst(ensure_uri_path(uri), Len(FILE))

\* the store get_virtual_store makes: get_store(tempfile.mkdtemp(prefix))
TmpStore ==
    [fs |-> "local", uri |-> FILE \o <<SLASH, "t">>,
     path |-> <<SLASH, "t">>, netloc |-> <<>>, base_path |-> <<SLASH, "t">>]

Scope(pc, op, key, path, exc, tmp, pending) ==
    [pc |-> pc, op |-> op, key |-> key, path |-> path, exc |-> exc,
     tmp |-> tmp, pending |-> pending]

\* local_path of a store that is not local: tmp.__enter__() and the download
\* into the temporary store; an exception leaves the generator suspended
local_path_download(c, its, op, key, fk, fails) ==
    IF fails \/ ~Present(its, fs_path(c.store, fk.val))
    THEN Scope("done", op, key, <<>>,
               IF fails THEN "OSError" ELSE "FileNotFoundError", "made", TRUE)
    ELSE Scope("body", op, key, uri_to_path(to_fs_key(TmpStore, key).val),
               "none", "made", FALSE)

\* local_path that downloads into a temporary store whatever the store is
local_path_fs_key_nolocal(c, its, op, key, fk, fails) ==
    IF ~fk.ok THEN Scope("done", op, key, <<>>, "ValueError", "none", FALSE)
    ELSE local_path_download(c, its, op, key, fk, fails)

\* local_path up to its yield, after uri = self._keys.to_fs_key(key) (fk): a
\* local store yields the path of the file; any other store enters a
\* temporary store and downloads into it, outside the try block. fails: the
\* download breaks off
local_path_fs_key(c, its, op, key, fk, fails) ==
    IF ~fk.ok THEN Scope("done", op, key, <<>>, "ValueError", "none", FALSE)
    ELSE IF c.store.fs = "local"
         THEN Scope("body", op, key, uri_to_path(fk.val), "none", "none", FALSE)
         ELSE local_path_download(c, its, op, key, fk, fails)

\* Store.local_path(key).__enter__()
local_path(c, its, op, key, fails) ==
    local_path_fs_key(c, its, op, key, keys_to_fs_key(c.store, key), fails)

\* the finally of local_path: tmp.__exit__ when a temporary store was entered
local_path_finally(sc, exc) ==
    Scope("done", sc.op, sc.key, sc.path, exc,
          IF sc.tmp # "none" THEN "removed" ELSE sc.tmp, FALSE)

\* Store.local_open(key).__enter__(), after local_path yielded or raised
\* (sc): path.open("rb") raises when the file is not there, and local_path
\* is left through its finally
local_open_path(its, sc) ==
    IF sc.pc = "body" /\ sc.tmp = "none" /\ ~Present(its, sc.path)
    THEN local_path_finally(sc, "FileNotFoundError")
    ELSE sc

\* Store.local_open(key).__enter__()
local_open(c, its, key, fails) ==
    local_open_path(its, local_path(c, its, "local_open", key, fails))

\* the suspended get_virtual_store generator is finalised: GeneratorExit at
\* its yield, and its finally removes the directory
finalize(sc) ==
    Scope(sc.pc, sc.op, sc.key, sc.path, sc.exc, "removed", FALSE)

(***************************************************************************)
(* The key-mapping specification: a Keys object of one store converts one  *)
(* key.                                                                    *)
(***************************************************************************)
IdleCfg ==
    [store |-> LocalStore, default_ttl |-> 0, raise_on_nonexist |-> TRUE,
     store_none_values |-> TRUE]
NoItems == [p \in {} |-> NONE]
NoCall == [op |-> "none", key |-> <<>>, arg |-> "none", exc |-> "none", ret |-> NONE]
\* no local_path context was entered
NoScope ==
    [pc |-> "idle", op |-> "none", key |-> <<>>, path |-> <<>>, exc |-> "none",
     tmp |-> "none", pending |-> FALSE]

Threads == {1, 2}

\* no thread has called anything
NoThread ==
    [pc |-> "idle", buf |-> <<>>, value |-> NONE, puts |-> {}, put |-> NONE,
     putat |-> 0, exc |-> "none", got |-> NONE]
NoThreads == [t \in Threads |-> NoThread]

\* the cached properties: _fs and _keys of the Store, key_prefix of a Keys
CachedNames == {"_fs", "_keys", "key_prefix"}

\* where they are cached: in the __dict__ of the Store (0), and in that of
\* each Keys object (named by the thread that made it)
Slots == ({"_fs", "_keys"} \X {0}) \cup ({"key_prefix"} \X Threads)

Unset == [set |-> FALSE, val |-> 0]
Set(v) == [set |-> TRUE, val |-> v]

\* nothing is cached; locked: functools.cached_property computes under its
\* lock (Python 3.11) or without one (Python 3.12 and later)
Uncached(locked) ==
    [locked |-> locked,
     slot |-> [a \in Slots |-> Unset],
     computing |-> [t \in Threads |-> "none"],
     seen |-> [t \in Threads |-> [n \in CachedNames |-> Unset]]]

\* the uri arguments of get_store: none, and a uri
NoUri == "None"
StoreUris == {NoUri, "a"}
\* the keyword options of get_store
StoreOptions == {"none", "ttl"}
\* Store objects are numbered as they are made, up to MaxStores
MaxStores == 3

\* a thread outside get_store
NoGetStore == [pc |-> "idle", uri |-> NoUri, options |-> "none", store |-> 0]

\* get_store has not been called; yaml_uri: the settings name a configuration
\* file of the store
NoStoreCacheFor(yaml_uri) ==
    [lock |-> 0, map |-> <<>>, made |-> 0, bare |-> FALSE, yaml_uri |-> yaml_uri,
     call |-> [t \in Threads |-> NoGetStore],
     returned |-> [t \in Threads |-> [a \in StoreUris \X StoreOptions |-> {}]]]

NoStoreCache == NoStoreCacheFor(FALSE)

\* no write handle is open
NoWriter ==
    [pc |-> "none", buffer |-> <<>>, initiated |-> FALSE, queue |-> <<>>,
     task |-> "none", body |-> <<>>, exc |-> "none",
     written |-> <<>>, enqueued |-> <<>>]

\* no count is stored
NoCounts == [s \in {} |-> 0]
\* a worker that is not in update()
IdleWorker == [pc |-> "idle", keys |-> <<>>, amount |-> 0, current |-> 0, result |-> 0]
\* RateLimit(store, resource, limit, interval) on an empty store, in the units
\* of the model: limit is kept in tenths
RateOf(limit, interval) ==
    [limit |-> limit, interval |-> interval, unit |-> 1, counts |-> NoCounts,
     done |-> <<>>, w |-> [t \in Threads |-> IdleWorker]]
NoRate == RateOf(1, 1)

\* iter_lines was not run: over content, with chunk_size
LinesOf(content, chunk_size) ==
    [content |-> content, chunk_size |-> chunk_size, ran |-> {},
     out |-> [seekable \in BOOLEAN |-> <<>>]]
NoLines == LinesOf(<<>>, 1)

\* a second Store, empty
TargetOn(store) == [c |-> [IdleCfg EXCEPT !.store = store], items |-> NoItems, dirs |-> {}]

SideIdle ==
    /\ writer = NoWriter
    /\ target = TargetOn(MemoryStore)
    /\ rate = NoRate
    /\ lines = NoLines

StoreIdle ==
    /\ SideIdle
    /\ cfg = IdleCfg
    /\ items = NoItems
    /\ dirs = {}
    /\ now = 0
    /\ last = NoCall
    /\ scope = NoScope
    /\ threads = NoThreads
    /\ cached = Uncached(FALSE)
    /\ store_cache = NoStoreCache

KeyInit ==
    /\ kstore \in KeyStores
    /\ kin \in InputKeys
    /\ kpc = "input"
    /\ kfs = NoResult
    /\ krel = NoResult
    /\ StoreIdle

\* keys.to_fs_key(kin), anystore/store/keys.py
ToFsKey ==
    /\ kpc = "input"
    /\ kfs' = to_fs_key(kstore, kin)
    /\ kpc' = "mapped"
    /\ UNCHANGED <<kstore, kin, krel, storevars>>

\* keys.from_fs_key(keys.to_fs_key(kin))
FromFsKey ==
    /\ kpc = "mapped"
    /\ kfs.ok
    /\ krel' = from_fs_key(kstore, kfs.val)
    /\ kpc' = "back"
    /\ UNCHANGED <<kstore, kin, kfs, storevars>>

\* keys.from_fs_key(kin): kin is a key the backend reports (find, glob)
FromBackendKey ==
    /\ kpc = "input"
    /\ krel' = from_fs_key(kstore, kin)
    /\ kpc' = "listed"
    /\ UNCHANGED <<kstore, kin, kfs, storevars>>

\* keys.to_fs_key(kin), anystore/core/keys.py
CoreToFsKey ==
    /\ kpc = "input"
    /\ kfs' = core_to_fs_key(kstore, kin)
    /\ kpc' = "coremapped"
    /\ UNCHANGED <<kstore, kin, krel, storevars>>

\* keys.from_fs_key(keys.to_fs_key(kin)), anystore/core/keys.py
CoreFromFsKey ==
    /\ kpc = "coremapped"
    /\ kfs.ok
    /\ krel' = core_from_fs_key(kstore, kfs.val)
    /\ kpc' = "coreback"
    /\ UNCHANGED <<kstore, kin, kfs, storevars>>

KeyNext == ToFsKey \/ FromFsKey \/ FromBackendKey \/ CoreToFsKey \/ CoreFromFsKey

KeySpec == KeyInit /\ [][KeyNext]_vars

(***************************************************************************)
(* The store specification: one Store, its backend, and a clock.           *)
(***************************************************************************)
KeyIdle ==
    /\ kstore = LocalStore
    /\ kin = <<>>
    /\ kpc = "idle"
    /\ kfs = NoResult
    /\ krel = NoResult

Init ==
    /\ cfg \in [store : StoreBackends, default_ttl : {0, DefaultTtl},
                raise_on_nonexist : BOOLEAN, store_none_values : BOOLEAN]
    /\ items = NoItems
    /\ dirs = {}
    /\ now = 0
    /\ last = NoCall
    /\ scope = NoScope
    /\ threads = NoThreads
    /\ cached = Uncached(FALSE)
    /\ store_cache = NoStoreCache
    /\ SideIdle
    /\ KeyIdle

\* the (key, value) pairs put: every value under "x", one value elsewhere
PutInputs == ({<<"x">>} \X Values) \cup ({<<"y">>, <<SLASH, "x">>} \X {"bytes"})

RaiseArgs == {"default", "true", "false"}

\* the backend path of a relative key the Store accepts
PathOf(key) == fs_path(cfg.store, keys_to_fs_key(cfg.store, key).val)

Call(op, key, arg, r) ==
    [op |-> op, key |-> key, arg |-> arg, exc |-> r.exc, ret |-> r.ret]

\* a Store call ends: the backend is as the call left it, the call is recorded
Returns(op, key, arg, r) ==
    /\ items' = r.items
    /\ last' = Call(op, key, arg, r)
    /\ UNCHANGED <<cfg, dirs, now, scope, threads, cachevars, sidevars, keyvars>>

\* a Store call that writes ends: ds are the directories it leaves
ReturnsMade(op, key, arg, r, ds) ==
    /\ items' = r.items
    /\ dirs' = ds
    /\ last' = Call(op, key, arg, r)
    /\ UNCHANGED <<cfg, now, scope, threads, cachevars, sidevars, keyvars>>

Get(key, raise_arg) ==
    Returns("get", key, raise_arg,
            get(cfg, items, now, key, raise_arg))

Pop(key, raise_arg) ==
    Returns("pop", key, raise_arg,
            pop(cfg, items, dirs, now, key, raise_arg))

Delete(key, ignore_errors) ==
    Returns("delete", key, IF ignore_errors THEN "true" ELSE "false",
            delete(cfg, items, dirs, key, ignore_errors))

Exists(key) ==
    Returns("exists", key, "none",
            exists(cfg, items, dirs, now, key))

Put(key, value, ttl) ==
    ReturnsMade("put", key, value,
                put(cfg, items, now, key, value, ttl),
                put_made(cfg, dirs, key, value))

Stream(key, raise_arg) ==
    Returns("stream", key, raise_arg,
            stream(cfg, items, key, raise_arg))

\* a second passes
Tick ==
    /\ now < MaxTime
    /\ now' = now + 1
    /\ UNCHANGED <<cfg, items, dirs, last, scope, threads, cachevars, sidevars, keyvars>>

Next ==
    \/ \E key \in StoreKeys, raise_arg \in RaiseArgs : Get(key, raise_arg)
    \/ \E key \in StoreKeys, raise_arg \in RaiseArgs : Pop(key, raise_arg)
    \/ \E key \in StoreKeys, ignore_errors \in BOOLEAN : Delete(key, ignore_errors)
    \/ \E key \in StoreKeys : Exists(key)
    \/ \E key \in StoreKeys, raise_arg \in RaiseArgs : Stream(key, raise_arg)
    \/ \E kv \in PutInputs, ttl \in {0, DefaultTtl} : Put(kv[1], kv[2], ttl)
    \/ Tick

Spec == Init /\ [][Next]_vars

(***************************************************************************)
(* The call specification: one Store at a fixed time; every operation that *)
(* takes a key is called with keys it accepts and keys it does not.        *)
(***************************************************************************)
Info(key) ==
    Returns("info", key, "none", info(cfg, items, dirs, key))

Checksum(key) ==
    Returns("checksum", key, "none", checksum(cfg, items, key))

OpenRead(key) ==
    Returns("open", key, "rb", open_read(cfg, items, key))

OpenWrite(key) ==
    ReturnsMade("open", key, "wb",
                open_write(cfg, items, now, key, "bytes"),
                open_made(cfg, dirs, key))

Touch(key) ==
    ReturnsMade("touch", key, "none",
                touch(cfg, items, now, key),
                put_made(cfg, dirs, key, "now"))

CallNext ==
    \/ \E key \in CallKeys : Get(key, "default")
    \/ \E key \in CallKeys : Pop(key, "default")
    \/ \E key \in CallKeys, ignore_errors \in BOOLEAN : Delete(key, ignore_errors)
    \/ \E key \in CallKeys : Exists(key)
    \/ \E key \in CallKeys : Stream(key, "default")
    \/ \E key \in CallKeys, value \in {"bytes", NONE} : Put(key, value, 0)
    \/ \E key \in CallKeys : Info(key)
    \/ \E key \in CallKeys : Checksum(key)
    \/ \E key \in CallKeys : OpenRead(key)
    \/ \E key \in CallKeys : OpenWrite(key)
    \/ \E key \in CallKeys : Touch(key)

CallSpec == Init /\ [][CallNext]_vars

(***************************************************************************)
(* The listing specification: one Store at a fixed time; items are put and *)
(* the keys are listed.                                                    *)
(***************************************************************************)
IterateKeys(prefix, exclude_prefix, glob) ==
    Returns("iterate_keys", prefix, <<exclude_prefix, glob>>,
            iterate_keys(cfg, items, dirs, prefix, exclude_prefix, glob))

ListNext ==
    \/ \E key \in ListKeys : Put(key, "bytes", 0)
    \/ \E prefix \in ListPrefixes, exclude_prefix \in ListExcludes, glob \in ListGlobs :
          IterateKeys(prefix, exclude_prefix, glob)

ListSpec == Init /\ [][ListNext]_vars

(***************************************************************************)
(* The local_path specification: one Store; items are put, and one         *)
(* local_path or local_open context is entered and left.                   *)
(***************************************************************************)
Scoped(sc) ==
    /\ scope' = sc
    /\ UNCHANGED <<cfg, items, dirs, now, last, threads, cachevars, sidevars, keyvars>>

LocalPathEnter(key, fails) ==
    /\ scope.pc = "idle"
    /\ Scoped(local_path(cfg, items, "local_path", key, fails))

LocalOpenEnter(key, fails) ==
    /\ scope.pc = "idle"
    /\ Scoped(local_open(cfg, items, key, fails))

\* the with block ends, normally or by an exception of the caller's body
LocalPathExit(raised) ==
    /\ scope.pc = "body"
    /\ Scoped(local_path_finally(scope, IF raised THEN "BodyError" ELSE "none"))

\* the garbage collector finalises the generator nobody holds any more
Finalize ==
    /\ scope.pending
    /\ Scoped(finalize(scope))

LocalPathNext ==
    \/ \E key \in CallKeys, value \in {"bytes", "str"} : Put(key, value, 0)
    \/ \E key \in CallKeys, fails \in BOOLEAN : LocalPathEnter(key, fails)
    \/ \E key \in CallKeys, fails \in BOOLEAN : LocalOpenEnter(key, fails)
    \/ \E raised \in BOOLEAN : LocalPathExit(raised)
    \/ Finalize

LocalPathSpec == Init /\ [][LocalPathNext]_vars

(***************************************************************************)
(* The aged-listing specification: one Store and a clock; items are put,   *)
(* time passes, and the keys are listed.                                   *)
(***************************************************************************)
AgedListNext ==
    \/ \E key \in {<<"x">>, <<"y", SLASH, "x">>} : Put(key, "bytes", 0)
    \/ \E prefix \in {<<>>, <<"y">>}, glob \in {<<>>, <<STAR>>} :
          IterateKeys(prefix, <<>>, glob)
    \/ Tick

AgedListSpec == Init /\ [][AgedListNext]_vars

(***************************************************************************)
(* The thread specification: several threads use one Store, each on a key  *)
(* of its own. A put is two steps, the opening of the backend file and its *)
(* close, and the steps of the threads interleave; a second may pass       *)
(* between any two.                                                        *)
(***************************************************************************)
\* the key of each thread: pairwise different
ThreadKey(t) == IF t = 1 THEN <<"x">> ELSE <<"y">>

\* the values each thread puts: no value is put under two keys
ThreadValues(t) == IF t = 1 THEN {"bytes", "str"} ELSE {"false"}

\* fs.open(path, "wb"): the local and the memory file system make the empty
\* file at once, the writers of Redis and SQL hold the bytes until close
fs_open_write(store, its, path, t) ==
    IF store.fs \in {"local", "memory"}
    THEN Store1(its, path, [data |-> <<>>, created |-> t, putat |-> t, asked |-> 0])
    ELSE its

\* o.write(to_store(value)): the bytes are in the writer of the thread
put_opened(th, value) ==
    [th EXCEPT !.pc = "writing", !.buf = to_store(value), !.value = value,
               !.puts = @ \cup {value}]

\* the bytes the writer of thread t hands to the backend at close
writer_buffer(ths, t) == ths[t].buf

\* the with block of Store.put ends: the put of the thread is complete
put_closed(th, t) ==
    [th EXCEPT !.pc = "idle", !.buf = <<>>, !.put = th.value, !.putat = t]

\* Store.get returned or raised (r) in the thread
got_result(th, r) == [th EXCEPT !.exc = r.exc, !.got = r.ret]

\* Store.put(key, value) of thread t up to o.write
PutOpen(t, value) ==
    /\ threads[t].pc = "idle"
    /\ items' = fs_open_write(cfg.store, items, PathOf(ThreadKey(t)), now)
    /\ dirs' = put_made(cfg, dirs, ThreadKey(t), value)
    /\ threads' = [threads EXCEPT ![t] = put_opened(@, value)]
    /\ UNCHANGED <<cfg, now, last, scope, cachevars, sidevars, keyvars>>

\* the writer of thread t is closed
PutClose(t) ==
    /\ threads[t].pc = "writing"
    /\ items' = fs_write(cfg.store, items, PathOf(ThreadKey(t)),
                         writer_buffer(threads, t), cfg.default_ttl, now)
    /\ threads' = [threads EXCEPT ![t] = put_closed(@, now)]
    /\ UNCHANGED <<cfg, dirs, now, last, scope, cachevars, sidevars, keyvars>>

\* Store.get(key) of thread t
ThreadGot(t, r) ==
    /\ items' = r.items
    /\ threads' = [threads EXCEPT ![t] = got_result(@, r)]
    /\ UNCHANGED <<cfg, dirs, now, last, scope, cachevars, sidevars, keyvars>>

ThreadGet(t) ==
    /\ threads[t].pc = "idle"
    /\ ThreadGot(t, get(cfg, items, now, ThreadKey(t), "default"))

ThreadNext ==
    \/ \E t \in Threads : \E value \in ThreadValues(t) : PutOpen(t, value)
    \/ \E t \in Threads : PutClose(t)
    \/ \E t \in Threads : ThreadGet(t)
    \/ Tick

ThreadSpec == Init /\ [][ThreadNext]_vars

(***************************************************************************)
(* The cached-property specification: the threads access Store._fs,        *)
(* Store._keys and Keys.key_prefix of one Store for the first time.        *)
(***************************************************************************)
\* what the decorated function returns in thread t: fsspec.url_to_fs hands
\* each thread a file system instance of its own, Keys(self.uri) is a new
\* object, key_prefix is a string
property_value(store, t, name) ==
    IF name = "key_prefix" THEN key_prefix(store) ELSE t

\* the __dict__ entry thread t looks at: key_prefix is cached in the Keys
\* object the thread was handed
slot_of(c, t, name) ==
    IF name = "key_prefix" THEN <<name, c.seen[t]["_keys"].val>> ELSE <<name, 0>>

\* cache[attrname] = val; return val
cached_store(c, t, name, value) ==
    [c EXCEPT !.slot[slot_of(c, t, name)] = Set(value),
              !.seen[t][name] = Set(value),
              !.computing[t] = "none"]

\* cached_property.__get__ up to the call of the decorated function
cached_get(c, t, name, value) ==
    IF c.slot[slot_of(c, t, name)].set
    THEN [c EXCEPT !.seen[t][name] = c.slot[slot_of(c, t, name)]]
    ELSE IF c.locked THEN cached_store(c, t, name, value)
    ELSE [c EXCEPT !.computing[t] = name]

Cached(c) ==
    /\ cached' = c
    /\ UNCHANGED <<cfg, items, dirs, now, last, scope, threads, store_cache, sidevars, keyvars>>

\* thread t reads the property for the first time
Access(t, name) ==
    /\ cached.computing[t] = "none"
    /\ ~cached.seen[t][name].set
    /\ name = "key_prefix" => cached.seen[t]["_keys"].set
    /\ Cached(cached_get(cached, t, name, property_value(cfg.store, t, name)))

\* the decorated function has returned in thread t
Computed(t) ==
    /\ cached.computing[t] # "none"
    /\ Cached(cached_store(cached, t, cached.computing[t],
                           property_value(cfg.store, t, cached.computing[t])))

CacheInit ==
    /\ cfg \in [store : StoreBackends, default_ttl : {0, DefaultTtl},
                raise_on_nonexist : BOOLEAN, store_none_values : BOOLEAN]
    /\ items = NoItems
    /\ dirs = {}
    /\ now = 0
    /\ last = NoCall
    /\ scope = NoScope
    /\ threads = NoThreads
    /\ cached \in {Uncached(locked) : locked \in BOOLEAN}
    /\ store_cache = NoStoreCache
    /\ SideIdle
    /\ KeyIdle

CacheNext ==
    \/ \E t \in Threads, name \in CachedNames : Access(t, name)
    \/ \E t \in Threads : Computed(t)

CacheSpec == CacheInit /\ [][CacheNext]_vars

(***************************************************************************)
(* The configuration specification: the calls of one Store at a fixed      *)
(* time, and RateLimit objects built over it.                              *)
(***************************************************************************)
\* RateLimit.__init__: self.store = store; self.store.raise_on_nonexist = False
rate_limit_init(c) == [c EXCEPT !.raise_on_nonexist = FALSE]

\* RateLimit(store, resource)
RateLimitInit ==
    /\ cfg' = rate_limit_init(cfg)
    /\ UNCHANGED <<items, dirs, now, last, scope, threads, cachevars, sidevars, keyvars>>

ConfigNext ==
    \/ \E key \in StoreKeys, raise_arg \in RaiseArgs : Get(key, raise_arg)
    \/ \E key \in StoreKeys, raise_arg \in RaiseArgs : Pop(key, raise_arg)
    \/ \E key \in StoreKeys, ignore_errors \in BOOLEAN : Delete(key, ignore_errors)
    \/ \E key \in StoreKeys : Exists(key)
    \/ \E kv \in PutInputs : Put(kv[1], kv[2], 0)
    \/ \E key \in StoreKeys : Touch(key)
    \/ RateLimitInit

ConfigSpec == Init /\ [][ConfigNext]_vars

(***************************************************************************)
(* The get_store specification: the threads call get_store; the steps of a *)
(* call (taking _store_lock, looking the key up, making the Store, taking  *)
(* the lock again, inserting) interleave with those of the other thread.   *)
(***************************************************************************)
\* uri = settings.uri when none is given
SettingsUri == "a"

\* a cache key that leaves the thread out
cache_key_shared(uri, options, t) == <<IF uri = NoUri THEN SettingsUri ELSE uri, options, 0>>

\* make_data_checksum((str(uri), kwargs, threading.get_ident()))
cache_key(uri, options, t) == <<IF uri = NoUri THEN SettingsUri ELSE uri, options, t>>

\* the key the call of thread t works with
call_key(sc, t) == cache_key(sc.call[t].uri, sc.call[t].options, t)

\* the call of thread t returns store
get_store_return(sc, t, store) ==
    [sc EXCEPT !.call[t] = NoGetStore,
               !.returned[t][<<sc.call[t].uri, sc.call[t].options>>] = @ \cup {store}]

\* a Store is made: Store(uri=uri, **kwargs), Store.from_yaml_uri(...)
store_made(sc) == [sc EXCEPT !.made = @ + 1]

\* get_store(uri, **options) up to the cache: with a configuration file in
\* the settings and no uri the Store is made from the file and returned
get_store_enter(sc, t, uri, options) ==
    IF uri = NoUri /\ sc.yaml_uri
    THEN get_store_return([store_made(sc) EXCEPT !.call[t].uri = uri,
                                                 !.call[t].options = options],
                          t, sc.made + 1)
    ELSE [sc EXCEPT !.call[t] = [pc |-> "lookup", uri |-> uri, options |-> options,
                                 store |-> 0]]

\* _store_lock.__enter__()
lock_acquire(sc, t, pc) == [sc EXCEPT !.lock = t, !.call[t].pc = pc]

\* if cache_key in _store_cache: return _store_cache[cache_key], and the
\* lock is released
get_store_lookup(sc, t) ==
    IF call_key(sc, t) \in DOMAIN sc.map
    THEN get_store_return([sc EXCEPT !.lock = 0, !.bare = @ \/ sc.lock # t],
                          t, sc.map[call_key(sc, t)])
    ELSE [sc EXCEPT !.lock = 0, !.bare = @ \/ sc.lock # t,
                    !.call[t].pc = "make"]

\* store = Store(uri=uri, **kwargs); _ = store._fs, which may raise ImportError
get_store_make(sc, t, fails) ==
    IF fails THEN [store_made(sc) EXCEPT !.call[t] = NoGetStore]
    ELSE [store_made(sc) EXCEPT !.call[t].pc = "insert", !.call[t].store = sc.made + 1]

\* _store_cache[cache_key] = store, the lock is released; return store
get_store_insert(sc, t) ==
    get_store_return([sc EXCEPT !.map = Store1(sc.map, call_key(sc, t), sc.call[t].store),
                                !.lock = 0, !.bare = @ \/ sc.lock # t],
                     t, sc.call[t].store)

StoreCached(sc) ==
    /\ store_cache' = sc
    /\ UNCHANGED <<cfg, items, dirs, now, last, scope, threads, cached, sidevars, keyvars>>

GetStoreEnter(t, uri, options) ==
    /\ store_cache.call[t].pc = "idle"
    /\ store_cache.made < MaxStores
    /\ StoreCached(get_store_enter(store_cache, t, uri, options))

\* with _store_lock: (before the lookup and before the insert)
LockAcquire(t) ==
    /\ store_cache.call[t].pc \in {"lookup", "insert"}
    /\ store_cache.lock = 0
    /\ StoreCached(lock_acquire(store_cache, t,
                                IF store_cache.call[t].pc = "lookup" THEN "locked_lookup"
                                ELSE "locked_insert"))

GetStoreLookup(t) ==
    /\ store_cache.call[t].pc = "locked_lookup"
    /\ StoreCached(get_store_lookup(store_cache, t))

GetStoreMake(t, fails) ==
    /\ store_cache.call[t].pc = "make"
    /\ StoreCached(get_store_make(store_cache, t, fails))

GetStoreInsert(t) ==
    /\ store_cache.call[t].pc = "locked_insert"
    /\ StoreCached(get_store_insert(store_cache, t))

GetStoreInit ==
    /\ cfg = IdleCfg
    /\ items = NoItems
    /\ dirs = {}
    /\ now = 0
    /\ last = NoCall
    /\ scope = NoScope
    /\ threads = NoThreads
    /\ cached = Uncached(FALSE)
    /\ store_cache \in {NoStoreCacheFor(yaml_uri) : yaml_uri \in BOOLEAN}
    /\ SideIdle
    /\ KeyIdle

GetStoreNext ==
    \/ \E t \in Threads, uri \in StoreUris, options \in StoreOptions :
          GetStoreEnter(t, uri, options)
    \/ \E t \in Threads : LockAcquire(t)
    \/ \E t \in Threads : GetStoreLookup(t)
    \/ \E t \in Threads, fails \in BOOLEAN : GetStoreMake(t, fails)
    \/ \E t \in Threads : GetStoreInsert(t)

GetStoreSpec == GetStoreInit /\ [][GetStoreNext]_vars

(***************************************************************************)
(* anystore/api: the HTTP routes over one Store (routes.py), the handler   *)
(* of DoesNotExist and FileNotFoundError (app.py), parse_range and         *)
(* iter_range (util.py). A response is [status, body, json, detail,        *)
(* content_range]: json tells that the body is the JSON object             *)
(* {"detail": detail}. An exception no handler is registered for ends in   *)
(* the 500 response of the framework.                                      *)
(***************************************************************************)
MINUS == "-"
Digits == <<"0", "1", "2", "3", "4", "5", "6", "7", "8", "9">>

IsDigits(s) == s # <<>> /\ \A i \in 1..Len(s) : \E d \in 1..10 : Digits[d] = s[i]

digit_value(ch) == (CHOOSE d \in 1..10 : Digits[d] = ch) - 1

\* int(s) of a string of decimal digits
RECURSIVE int_of(_)
int_of(s) ==
    IF Len(s) = 1 THEN digit_value(s[1])
    ELSE 10 * int_of(SubSeq(s, 1, Len(s) - 1)) + digit_value(s[Len(s)])

\* str(n)
RECURSIVE str_of(_)
str_of(n) ==
    IF n < 0 THEN <<MINUS>> \o str_of(0 - n)
    ELSE IF n < 10 THEN <<Digits[n + 1]>>
    ELSE str_of(n \div 10) \o <<Digits[(n % 10) + 1]>>

Min(a, b) == IF a < b THEN a ELSE b
Max(a, b) == IF a < b THEN b ELSE a

BYTES_EQ == <<"b", "y", "t", "e", "s", "=">>

\* the bytes of a stored value: a prefix of "abcde"
ApiBodies == {SubSeq(<<"a", "b", "c", "d", "e">>, 1, n) : n \in 0..MaxTokens}
\* the numbers in the Range headers
RangeNums == 0..(MaxTokens + 1)
\* Range: bytes=a-b, bytes=-s, bytes=a-
RangeClosed(a, b) == BYTES_EQ \o str_of(a) \o <<MINUS>> \o str_of(b)
RangeSuffix(n) == BYTES_EQ \o <<MINUS>> \o str_of(n)
RangeOpen(a) == BYTES_EQ \o str_of(a) \o <<MINUS>>
\* the Range headers sent: none, the three forms, and three that are no
\* byte range
RangeHeaders ==
    {<<>>, <<"x">>, BYTES_EQ \o <<"1">>, BYTES_EQ \o <<"x", MINUS>>}
        \cup {RangeClosed(a, b) : a, b \in RangeNums}
        \cup {RangeSuffix(n) : n \in RangeNums}
        \cup {RangeOpen(a) : a \in RangeNums}
\* CHUNK_SIZE, in bytes
ChunkSize == 2

\* parse_range without the clamp of end to the last byte
parse_range_parts_unclamped(parts, total) ==
    IF ~IsDigits(parts[1]) THEN Raise("ValueError", "int")
    ELSE IF Len(parts) < 2 THEN Raise("IndexError", "parts")
    ELSE IF parts[2] = <<>> THEN Ok(<<int_of(parts[1]), total - 1>>)
    ELSE IF ~IsDigits(parts[2]) THEN Raise("ValueError", "int")
    ELSE Ok(<<int_of(parts[1]), int_of(parts[2])>>)

\* parse_range after parts = spec.split("-", 1)
parse_range_parts(parts, total) ==
    IF ~IsDigits(parts[1]) THEN Raise("ValueError", "int")
    ELSE IF Len(parts) < 2 THEN Raise("IndexError", "parts")
    ELSE IF parts[2] = <<>> THEN Ok(<<int_of(parts[1]), total - 1>>)
    ELSE IF ~IsDigits(parts[2]) THEN Raise("ValueError", "int")
    ELSE Ok(<<int_of(parts[1]), Min(int_of(parts[2]), total - 1)>>)

\* spec.split("-", 1)
split_once(spec, c) ==
    IF ~Contains(spec, <<c>>) THEN <<spec>>
    ELSE <<Split(spec, c)[1], DropFirst(spec, Len(Split(spec, c)[1]) + 1)>>

\* parse_range after spec = header[len("bytes="):]
parse_range_spec(spec, total) ==
    IF StartsWith(spec, <<MINUS>>)
    THEN IF IsDigits(Tail(spec))
         THEN Ok(<<Max(total - int_of(Tail(spec)), 0), total - 1>>)
         ELSE Raise("ValueError", "int")
    ELSE parse_range_parts(split_once(spec, MINUS), total)

\* parse_range(header, total): (start, end), end inclusive
parse_range(header, total) ==
    IF ~StartsWith(header, BYTES_EQ) THEN Raise("ValueError", "Only byte ranges supported")
    ELSE parse_range_spec(DropFirst(header, Len(BYTES_EQ)), total)

\* fh.seek(pos); fh.read(n)
fh_read(data, pos, n) == SubSeq(data, pos + 1, Min(pos + n, Len(data)))

\* iter_range(fh, start, length, size): the chunks, joined
RECURSIVE iter_range(_, _, _, _)
iter_range(data, pos, remaining, size) ==
    IF remaining <= 0 THEN <<>>
    ELSE IF fh_read(data, pos, Min(size, remaining)) = <<>> THEN <<>>
    ELSE fh_read(data, pos, Min(size, remaining))
            \o iter_range(data, pos + Len(fh_read(data, pos, Min(size, remaining))),
                          remaining - Len(fh_read(data, pos, Min(size, remaining))),
                          size)

\* iter_chunks(fh, size): the chunks, joined
RECURSIVE iter_chunks(_, _, _)
iter_chunks(data, pos, size) ==
    IF fh_read(data, pos, size) = <<>> THEN <<>>
    ELSE fh_read(data, pos, size) \o iter_chunks(data, pos + size, size)

\* f"bytes {start}-{end}/{total}"
content_range(start, end, total) ==
    <<"b", "y", "t", "e", "s", SPACE>> \o str_of(start) \o <<MINUS>> \o str_of(end)
        \o <<SLASH>> \o str_of(total)

Response(status, body, json, detail, range) ==
    [status |-> status, body |-> body, json |-> json, detail |-> detail,
     content_range |-> range]

\* _not_found_handler: JSONResponse(status_code=404, content={"detail": str(exc)})
not_found_handler(msg) == Response(404, <<>>, TRUE, msg, <<>>)

\* Response(status_code=status), no body
empty_response(status) == Response(status, <<>>, FALSE, <<>>, <<>>)

\* the answer to an exception without a handler
server_error == Response(500, <<"Internal Server Error">>, FALSE, <<>>, <<>>)

\* the answer to an exception exc that reaches the application
exception_response(exc, msg) ==
    IF exc \in {"DoesNotExist", "FileNotFoundError"} THEN not_found_handler(msg)
    ELSE server_error

\* length = end - start + 1, sent as Content-Length
range_length(rng) == rng.val[2] - rng.val[1] + 1

\* GET with a Range header, after start, end = parse_range(range, total) (rng)
api_get_range(data, rng) ==
    IF ~rng.ok THEN server_error
    ELSE Response(206,
                  iter_range(data, rng.val[1], range_length(rng), ChunkSize),
                  FALSE, <<>>, content_range(rng.val[1], rng.val[2], Len(data)))

\* GET of a stored value
api_get_file(data, range) ==
    IF range = <<>> THEN Response(200, iter_chunks(data, 0, ChunkSize), FALSE, <<>>, <<>>)
    ELSE api_get_range(data, parse_range(range, Len(data)))

\* GET after fs_key = store._keys.to_fs_key(key) in _is_file (fk)
api_get_fs_key(c, its, key, fk, range) ==
    IF ~fk.ok THEN server_error
    ELSE IF ~Present(its, fs_path(c.store, fk.val)) THEN not_found_handler(key)
    ELSE api_get_file(its[fs_path(c.store, fk.val)].data, range)

\* GET /{key}
api_get(c, its, key, range) ==
    Res(its, "none", api_get_fs_key(c, its, key, keys_to_fs_key(c.store, key), range))

\* PUT /{key} after to_fs_key in store.open(key, "wb") (fk): the body is
\* written as it is
api_put_fs_key(c, its, t, fk, body) ==
    IF ~fk.ok THEN Res(its, "none", server_error)
    ELSE Res(fs_write(c.store, its, fs_path(c.store, fk.val), body, 0, t),
             "none", empty_response(204))

\* PUT /{key}
api_put(c, its, t, key, body) ==
    api_put_fs_key(c, its, t, keys_to_fs_key(c.store, key), body)

\* DELETE after store.delete(key) returned or raised (d)
api_delete_deleted(key, d) ==
    IF d.exc # "none" THEN Res(d.items, "none", exception_response(d.exc, key))
    ELSE Res(d.items, "none", empty_response(204))

\* DELETE after store.exists(key) returned or raised (e)
api_delete_exists(c, ds, key, e) ==
    IF e.exc # "none" THEN Res(e.items, "none", exception_response(e.exc, key))
    ELSE IF e.ret = "False" THEN Res(e.items, "none", empty_response(404))
    ELSE api_delete_deleted(key, delete(c, e.items, ds, key, FALSE))

\* DELETE /{key}
api_delete(c, its, ds, t, key) ==
    api_delete_exists(c, ds, key, exists(c, its, ds, t, key))

\* PATCH after store.touch(key) returned or raised (p)
api_touch_put(key, p) ==
    IF p.exc # "none" THEN Res(p.items, "none", exception_response(p.exc, key))
    ELSE Res(p.items, "none", Response(200, <<"isoformat">>, FALSE, <<>>, <<>>))

\* PATCH /{key}
api_touch(c, its, t, key) == api_touch_put(key, touch(c, its, t, key))

\* HEAD after to_fs_key in _is_file (fk)
api_head_fs_key(c, its, fk) ==
    IF ~fk.ok THEN server_error
    ELSE IF ~Present(its, fs_path(c.store, fk.val)) THEN empty_response(404)
    ELSE empty_response(200)

\* HEAD /{key}
api_head(c, its, key) ==
    Res(its, "none", api_head_fs_key(c, its, keys_to_fs_key(c.store, key)))

\* POST /_list: the keys are produced while the 200 response is streamed
api_list(its, listed) ==
    Res(its, "none", Response(200, listed.ret, FALSE, <<>>, <<>>))

(***************************************************************************)
(* The range specification: values are sent to one key with PUT and read   *)
(* back with GET under every Range header.                                 *)
(***************************************************************************)
ApiPut(key, body) ==
    ReturnsMade("PUT", key, body, api_put(cfg, items, now, key, body),
                open_made(cfg, dirs, key))

ApiGet(key, range) ==
    Returns("GET", key, range, api_get(cfg, items, key, range))

RangeNext ==
    \/ \E body \in ApiBodies : ApiPut(<<"x">>, body)
    \/ \E range \in RangeHeaders : ApiGet(<<"x">>, range)

RangeSpec == Init /\ [][RangeNext]_vars

(***************************************************************************)
(* The API specification: the requests of the HTTP surface on two keys and *)
(* on the folder of one of them, at a fixed time.                          *)
(***************************************************************************)
\* the keys written, and the keys asked for: "y" is only the folder of "y/x"
ApiPutKeys == {<<"x">>, <<"y", SLASH, "x">>}
ApiKeys == ApiPutKeys \cup {<<"y">>}

ApiDelete(key) ==
    Returns("DELETE", key, "none", api_delete(cfg, items, dirs, now, key))

ApiTouch(key) ==
    ReturnsMade("PATCH", key, "none", api_touch(cfg, items, now, key),
                put_made(cfg, dirs, key, "now"))

ApiHead(key) ==
    Returns("HEAD", key, "none", api_head(cfg, items, key))

ApiList(prefix) ==
    Returns("LIST", prefix, "none",
            api_list(items, iterate_keys(cfg, items, dirs, prefix, <<>>, <<>>)))

ApiNext ==
    \/ \E key \in ApiPutKeys : ApiPut(key, <<"a", "b">>)
    \/ \E key \in ApiKeys, range \in {<<>>, RangeClosed(0, 0)} : ApiGet(key, range)
    \/ \E key \in ApiKeys : ApiDelete(key)
    \/ \E key \in ApiPutKeys : ApiTouch(key)
    \/ \E key \in ApiKeys : ApiHead(key)
    \/ \E prefix \in {<<>>, <<"y">>, <<"w">>} : ApiList(prefix)

ApiSpec == Init /\ [][ApiNext]_vars

(***************************************************************************)
(* Store.checksum and make_checksum (util/checksum.py). A hashlib object   *)
(* is modelled by a running number of fixed width that every byte of every *)
(* update changes: the digest depends on the bytes and their order, and on *)
(* the algorithm, as a digest of hashlib does.                             *)
(***************************************************************************)
\* the algorithm arguments: two of hashlib, None, and a name hashlib lacks
HashAlgorithms == {"sha256", "md5"}
AlgorithmArgs == HashAlgorithms \cup {NONE, "sha0"}
DEFAULT_HASH_ALGORITHM == "sha256"

\* the values written, as bytes
ChecksumBodies ==
    {<<>>, <<"a">>, <<"a", "b">>, <<"b", "a">>, <<"a", "b", "c">>}
\* the chunk sizes read with
ChunkSizes == 1..MaxTokens

byte_value(b) ==
    CASE b = "a" -> 1 [] b = "b" -> 2 [] b = "c" -> 3 [] b = "d" -> 4 [] OTHER -> 5

\* getattr(hashlib, algorithm)(): the fresh hash object
hash_new(algorithm) == IF algorithm = "md5" THEN 5 ELSE 1

\* hash_.update(chunk), byte after byte
RECURSIVE hash_update(_, _, _)
hash_update(algorithm, h, chunk) ==
    IF chunk = <<>> THEN h
    ELSE hash_update(algorithm,
                     (h * (IF algorithm = "md5" THEN 11 ELSE 7)
                        + byte_value(Head(chunk))) % 65536,
                     Tail(chunk))

\* io.read(size) at position pos
io_read(data, pos, size) == SubSeq(data, pos + 1, Min(pos + size, Len(data)))

\* for chunk in iter(lambda: io.read(CHUNK_SIZE), b""): hash_.update(chunk)
RECURSIVE make_checksum_loop(_, _, _, _, _)
make_checksum_loop(data, algorithm, size, pos, h) ==
    IF io_read(data, pos, size) = <<>> THEN h
    ELSE make_checksum_loop(data, algorithm, size, pos + size,
                            hash_update(algorithm, h, io_read(data, pos, size)))

\* a reader that stops after its first chunk
make_checksum_first_chunk(data, algorithm, size) ==
    hash_update(algorithm, hash_new(algorithm), io_read(data, 0, size))

\* make_checksum(io, algorithm), reading size bytes at a time
make_checksum(data, algorithm, size) ==
    make_checksum_loop(data, algorithm, size, 0, hash_new(algorithm))

\* Store.checksum after self._fs.open(key, mode="rb") returned or raised (o)
checksum_opened_with(its, o, algorithm, size) ==
    IF o.exc # "none" THEN Res(its, o.exc, NONE)
    ELSE IF algorithm \notin HashAlgorithms \cup {NONE}
         THEN Res(its, "AttributeError", NONE)
         ELSE Res(its, "none",
                  make_checksum(o.data,
                                IF algorithm = NONE THEN DEFAULT_HASH_ALGORITHM
                                ELSE algorithm,
                                size))

checksum_fs_key_with(c, its, fk, algorithm, size) ==
    IF ~fk.ok THEN Res(its, "ValueError", NONE)
    ELSE checksum_opened_with(its, fs_open_read(its, fs_path(c.store, fk.val)),
                              algorithm, size)

\* Store.checksum(key, algorithm), CHUNK_SIZE being size
checksum_with(c, its, key, algorithm, size) ==
    checksum_fs_key_with(c, its, keys_to_fs_key(c.store, key), algorithm, size)

\* with Store.open(key, "wb") as fh: fh.write(body), after to_fs_key (fk)
write_bytes_fs_key(c, its, t, fk, body) ==
    IF ~fk.ok THEN Res(its, "ValueError", NONE)
    ELSE Res(fs_write(c.store, its, fs_path(c.store, fk.val), body, 0, t),
             "none", NONE)

write_bytes(c, its, t, key, body) ==
    write_bytes_fs_key(c, its, t, keys_to_fs_key(c.store, key), body)

(***************************************************************************)
(* The checksum specification: bytes are written to two keys and removed,  *)
(* and checksums are asked for with every algorithm argument and chunk     *)
(* size.                                                                   *)
(***************************************************************************)
ChecksumKeys == {<<"x">>, <<"y">>}

WriteBytes(key, body) ==
    ReturnsMade("write", key, body, write_bytes(cfg, items, now, key, body),
                open_made(cfg, dirs, key))

ChecksumWith(key, algorithm, size) ==
    Returns("checksum", key, <<algorithm, size>>,
            checksum_with(cfg, items, key, algorithm, size))

ChecksumNext ==
    \/ \E key \in ChecksumKeys, body \in ChecksumBodies : WriteBytes(key, body)
    \/ \E key \in ChecksumKeys, algorithm \in AlgorithmArgs, size \in ChunkSizes :
          ChecksumWith(key, algorithm, size)
    \/ \E key \in ChecksumKeys : Delete(key, TRUE)

ChecksumSpec == Init /\ [][ChecksumNext]_vars

(***************************************************************************)
(* anystore/store/resource.py: UriResource.__init__, with ensure_uri and   *)
(* urlparse (logic/uri.py) and the Store it builds. A backend key denotes  *)
(* a location: the local file system resolves a key that is not absolute   *)
(* against the working directory of the process.                           *)
(***************************************************************************)
\* urlparse(uri) of a uri scheme://netloc/path, from its "/"-separated parts
url_netloc(uri) ==
    IF Len(Split(uri, SLASH)) >= 3 THEN Split(uri, SLASH)[3] ELSE <<>>

url_path(uri) ==
    IF Len(Split(uri, SLASH)) > 3
    THEN <<SLASH>> \o Join(SubSeq(Split(uri, SLASH), 4, Len(Split(uri, SLASH))), SLASH)
    ELSE <<>>

url_scheme(uri) == RStripCh(Split(uri, SLASH)[1], COLON)

\* ensure_uri(uri) of a uri with a scheme (raises what validate_uri raises)
ensure_uri(uri) ==
    IF ~validate_uri(uri).ok THEN validate_uri(uri)
    ELSE IF url_netloc(validate_uri(uri).val) = <<>>
            /\ url_path(validate_uri(uri).val) = <<>>
         THEN Ok(url_scheme(validate_uri(uri).val) \o <<COLON, SLASH, SLASH>>)
         ELSE Ok(unquote(validate_uri(uri).val))

\* the working directory of the process
CWD == <<SLASH, "w">>

\* the file system class fsspec picks for a scheme
fs_of_scheme(scheme) ==
    CASE scheme = <<"f", "i", "l", "e">> -> "local"
      [] scheme = <<"m", "e", "m", "o", "r", "y">> -> "memory"
      [] scheme = <<"h", "t", "t", "p">> -> "http"
      [] OTHER -> "generic"

\* fsspec.url_to_fs(uri)[1]: the path the file system strips the uri to
url_to_fs_path(uri) ==
    CASE fs_of_scheme(url_scheme(uri)) = "local" ->
            IF url_path(uri) = <<>> THEN CWD ELSE url_path(uri)
      [] fs_of_scheme(url_scheme(uri)) = "memory" ->
            <<SLASH>> \o RStripCh(url_netloc(uri) \o url_path(uri), SLASH)
      [] fs_of_scheme(url_scheme(uri)) = "http" -> uri
      [] OTHER -> RStripCh(url_netloc(uri) \o url_path(uri), SLASH)

\* Store(uri=uri): the fields Keys reads, after the validator ensure_uri
StoreOf(uri) ==
    [fs |-> fs_of_scheme(url_scheme(ensure_uri(uri).val)),
     uri |-> ensure_uri(uri).val,
     path |-> url_path(ensure_uri(uri).val),
     netloc |-> url_netloc(ensure_uri(uri).val),
     base_path |-> url_to_fs_path(ensure_uri(uri).val)]

\* uri.rsplit("/", 1)
rsplit_base(uri) == Join(SubSeq(Split(uri, SLASH), 1, Len(Split(uri, SLASH)) - 1), SLASH)
rsplit_key(uri) == Split(uri, SLASH)[Len(Split(uri, SLASH))]

\* UriResource.__init__ after self.uri = ensure_uri(uri) (u): store and key
uri_resource_ensured(u) ==
    IF url_path(u) # <<>>
    THEN [store |-> StoreOf(rsplit_base(u)), key |-> rsplit_key(u)]
    ELSE [store |-> StoreOf(u), key |-> CURRENT]

\* UriResource(uri)
uri_resource(uri) == uri_resource_ensured(ensure_uri(uri).val)

\* the location a backend key of the store denotes
fs_location(store, fk) ==
    IF store.fs = "local"
    THEN IF StartsWith(fk, <<SLASH>>) THEN fk
         ELSE IF fk = <<>> THEN CWD ELSE CWD \o <<SLASH>> \o fk
    ELSE IF store.fs = "http" THEN fk ELSE StripCh(fk, SLASH)

\* the location an absolute uri denotes
uri_location(uri) ==
    IF fs_of_scheme(url_scheme(uri)) = "memory"
    THEN StripCh(url_to_fs_path(uri), SLASH)
    ELSE url_to_fs_path(uri)

(***************************************************************************)
(* The resource specification: a UriResource is made for a uri, and the    *)
(* backend key of its bound key is computed.                               *)
(***************************************************************************)
\* scheme and host of the uris
ResourceBases ==
    {FILE, <<"s", "3", COLON, SLASH, SLASH, "h">>,
     <<"h", "t", "t", "p", COLON, SLASH, SLASH, "h">>,
     <<"m", "e", "m", "o", "r", "y", COLON, SLASH, SLASH, "x">>}

\* the paths of up to n segments
RECURSIVE ResourcePaths(_)
ResourcePaths(n) ==
    IF n = 0 THEN {<<>>}
    ELSE ResourcePaths(n - 1)
         \cup {p \o <<SLASH, s>> : p \in ResourcePaths(n - 1), s \in {"x", "y"}}

\* no path, one segment, nested, each also with a trailing slash
ResourceUris ==
    {b \o p \o t : b \in ResourceBases, p \in ResourcePaths(MaxTokens),
                   t \in {<<>>, <<SLASH>>}} \ {FILE}

ResourceInit ==
    /\ kstore = LocalStore
    /\ kin \in ResourceUris
    /\ kpc = "input"
    /\ kfs = NoResult
    /\ krel = NoResult
    /\ StoreIdle

\* UriResource(kin): krel holds the bound key
UriResourceNew ==
    /\ kpc = "input"
    /\ kstore' = uri_resource(kin).store
    /\ krel' = Ok(uri_resource(kin).key)
    /\ kpc' = "bound"
    /\ UNCHANGED <<kin, kfs, storevars>>

\* resource.store._keys.to_fs_key(resource.key), as every verb starts
ResourceToFsKey ==
    /\ kpc = "bound"
    /\ kfs' = to_fs_key(kstore, krel.val)
    /\ kpc' = "mapped"
    /\ UNCHANGED <<kstore, kin, krel, storevars>>

ResourceNext == UriResourceNew \/ ResourceToFsKey

ResourceSpec == ResourceInit /\ [][ResourceNext]_vars

(***************************************************************************)
(* The read specification: items are put on two keys, time passes, and     *)
(* every reading call of the Store is made on these keys and on the folder *)
(* of one of them.                                                         *)
(***************************************************************************)
ReadPutKeys == {<<"x">>, <<"y", SLASH, "x">>}
ReadKeys == ReadPutKeys \cup {<<"y">>}

ReadNext ==
    \/ \E key \in ReadPutKeys : Put(key, "bytes", 0)
    \/ Tick
    \/ \E key \in ReadKeys, raise_arg \in {"default", "false"} : Get(key, raise_arg)
    \/ \E key \in ReadKeys : Exists(key)
    \/ \E key \in ReadKeys : Info(key)
    \/ \E key \in ReadKeys : Checksum(key)
    \/ \E key \in ReadKeys : OpenRead(key)
    \/ \E key \in ReadKeys : Stream(key, "default")
    \/ \E glob \in {<<>>, <<STAR>>} : IterateKeys(<<>>, <<>>, glob)

ReadSpec == Init /\ [][ReadNext]_vars

(***************************************************************************)
(* anystore/fs/api.py: ApiFileWriter, a write handle of ApiFileSystem on   *)
(* fsspec's AbstractBufferedFile. write() collects bytes in self.buffer    *)
(* and flushes once a block is full; the first flush starts the upload     *)
(* task on the event loop; close() flushes with force. The event loop runs *)
(* _do_upload beside the writing thread: its body generator takes chunks   *)
(* from the queue until the sentinel None. A queue entry is                *)
(* [eof, data]: eof marks the sentinel.                                    *)
(***************************************************************************)
\* the block size of the handle (fsspec: 5 MB, as CHUNK_SIZE)
BlockSize == ChunkSize

Chunk(data) == [eof |-> FALSE, data |-> data]
Sentinel == [eof |-> TRUE, data |-> <<>>]

\* sync(self.fs.loop, self._queue.put, entry)
queue_put(w, entry) ==
    [w EXCEPT !.queue = Append(@, entry), !.enqueued = Append(@, entry)]

\* _upload_chunk that sends the sentinel before the buffered data
upload_chunk_sentinel_first(w, final) ==
    IF final
    THEN IF w.buffer # <<>> THEN queue_put(queue_put(w, Sentinel), Chunk(w.buffer))
         ELSE queue_put(w, Sentinel)
    ELSE IF w.buffer # <<>> THEN queue_put(w, Chunk(w.buffer)) ELSE w

\* ApiFileWriter._upload_chunk(final), up to self._upload_task.result()
upload_chunk(w, final) ==
    IF final
    THEN IF w.buffer # <<>> THEN queue_put(queue_put(w, Chunk(w.buffer)), Sentinel)
         ELSE queue_put(w, Sentinel)
    ELSE IF w.buffer # <<>> THEN queue_put(w, Chunk(w.buffer)) ELSE w

\* ApiFileWriter._initiate_upload: a fresh queue, and the upload task starts
initiate_upload(w) ==
    [w EXCEPT !.initiated = TRUE, !.queue = <<>>, !.task = "running"]

\* AbstractBufferedFile.flush(force) of a handle open for writing, after the
\* test of the block size: the upload is initiated on the first flush, the
\* chunk is uploaded and the buffer starts anew
flush_upload(w, force) ==
    [upload_chunk(IF w.initiated THEN w ELSE initiate_upload(w), force)
        EXCEPT !.buffer = <<>>]

flush(w, force) ==
    IF ~force /\ Len(w.buffer) < BlockSize THEN w ELSE flush_upload(w, force)

\* AbstractBufferedFile.write(data)
writer_write(w, data) ==
    flush([w EXCEPT !.buffer = @ \o data, !.written = @ \o data], FALSE)

\* AbstractBufferedFile.close() until close waits for the upload task
writer_close(w) == [flush(w, TRUE) EXCEPT !.pc = "waiting"]

\* self._upload_task.result() returns or raises, and close() ends
upload_result(w) ==
    [w EXCEPT !.pc = "closed",
              !.exc = IF w.task = "failed" THEN "ClientResponseError" ELSE "none"]

\* _body_generator: chunk = await self._queue.get(); the chunk goes into the
\* body of the PUT, the sentinel ends the body
body_generator_next(w) ==
    IF Head(w.queue).eof THEN [w EXCEPT !.queue = Tail(@), !.task = "sent"]
    ELSE [w EXCEPT !.queue = Tail(@), !.body = @ \o Head(w.queue).data]

(***************************************************************************)
(* The writer specification: one handle is opened, written to and closed   *)
(* by one thread, while the event loop uploads; the upload can fail at any *)
(* time, and the server can answer the complete request with an error.     *)
(***************************************************************************)
\* the bytes of one write call
WriteData == {<<"a">>, <<"b", "c">>, <<"a", "b", "c">>}

Writer(w) ==
    /\ writer' = w
    /\ UNCHANGED <<cfg, items, dirs, now, last, scope, threads, cachevars, target,
                   rate, lines, keyvars>>

\* fs._open(path, "wb")
WriterOpen ==
    /\ writer.pc = "none"
    /\ Writer([writer EXCEPT !.pc = "open"])

WriterWrite(data) ==
    /\ writer.pc = "open"
    /\ Len(writer.written) + Len(data) <= MaxTokens + 1
    /\ Writer(writer_write(writer, data))

WriterClose ==
    /\ writer.pc = "open"
    /\ Writer(writer_close(writer))

\* close() goes on when the upload task is done
WriterClosed ==
    /\ writer.pc = "waiting"
    /\ writer.task \in {"ok", "failed"}
    /\ Writer(upload_result(writer))

BodyNext ==
    /\ writer.task = "running"
    /\ writer.queue # <<>>
    /\ Writer(body_generator_next(writer))

\* the response to the complete PUT arrives; raise_for_status raises or not
UploadResponse(ok) ==
    /\ writer.task = "sent"
    /\ Writer([writer EXCEPT !.task = IF ok THEN "ok" ELSE "failed"])

\* the connection breaks, or the server answers before the body is complete
UploadAbort ==
    /\ writer.task = "running"
    /\ Writer([writer EXCEPT !.task = "failed"])

WriterNext ==
    \/ WriterOpen
    \/ \E data \in WriteData : WriterWrite(data)
    \/ WriterClose
    \/ WriterClosed
    \/ BodyNext
    \/ \E ok \in BOOLEAN : UploadResponse(ok)
    \/ UploadAbort

WriterInit == StoreIdle /\ KeyIdle

WriterSpec == WriterInit /\ [][WriterNext]_vars

(***************************************************************************)
(* anystore/mirror.py: mirror(source, target, glob, prefix,                *)
(* exclude_prefix, overwrite). The source is the Store of cfg and items,   *)
(* the target a second Store tg = [c, items, dirs]. A result is [tg, exc]. *)
(***************************************************************************)
\* the backend path of a key in the target
TargetPath(tg, key) == fs_path(tg.c.store, keys_to_fs_key(tg.c.store, key).val)

\* with target.open(key, "wb") as o: o.write(data); the local file system
\* cannot open a directory for writing
mirror_write(tg, t, key, data) ==
    IF ~keys_to_fs_key(tg.c.store, key).ok THEN [tg |-> tg, exc |-> "ValueError"]
    ELSE IF tg.c.store.fs = "local"
            /\ IsDirectory(tg.c.store, tg.items, tg.dirs, TargetPath(tg, key))
    THEN [tg |-> tg, exc |-> "IsADirectoryError"]
    ELSE [tg |-> [tg EXCEPT !.items = fs_write(tg.c.store, tg.items,
                                              TargetPath(tg, key), data, 0, t),
                            !.dirs = open_made(tg.c, tg.dirs, key)],
          exc |-> "none"]

\* mirror, one key, after source.open(key, "rb") returned or raised (o)
mirror_opened(tg, t, key, o) ==
    IF o.exc # "none" THEN [tg |-> tg, exc |-> o.exc]
    ELSE mirror_write(tg, t, key, o.data)

\* mirror, one key, from source.open(key, "rb") on
mirror_copy(c, its, tg, t, key) ==
    IF ~keys_to_fs_key(c.store, key).ok THEN [tg |-> tg, exc |-> "ValueError"]
    ELSE mirror_opened(tg, t, key,
                       fs_open_read(its, fs_path(c.store, keys_to_fs_key(c.store, key).val)))

\* mirror, one key, after target.exists(key) returned or raised (e)
mirror_exists(c, its, tg, t, key, e) ==
    IF e.exc # "none" THEN [tg |-> [tg EXCEPT !.items = e.items], exc |-> e.exc]
    ELSE IF e.ret = "True" THEN [tg |-> [tg EXCEPT !.items = e.items], exc |-> "none"]
    ELSE mirror_copy(c, its, [tg EXCEPT !.items = e.items], t, key)

\* a mirror that copies every key whatever overwrite says
mirror_key_always(c, its, tg, t, key, overwrite) == mirror_copy(c, its, tg, t, key)

\* the body of the loop of mirror for one key
mirror_key(c, its, tg, t, key, overwrite) ==
    IF overwrite THEN mirror_copy(c, its, tg, t, key)
    ELSE mirror_exists(c, its, tg, t, key, exists(tg.c, tg.items, tg.dirs, t, key))

\* the loop of mirror over the keys in the order they are yielded; an
\* exception ends it
RECURSIVE mirror_loop(_, _, _, _, _, _)
mirror_loop(c, its, r, t, keys, overwrite) ==
    IF keys = <<>> \/ r.exc # "none" THEN r
    ELSE mirror_loop(c, its, mirror_key(c, its, r.tg, t, Head(keys), overwrite),
                     t, Tail(keys), overwrite)

\* the order the keys of the model are listed in
KeyOrder == <<<<>>, <<"x">>, <<"y">>, <<"y", SLASH, "x">>>>
InKeyOrder(keys) == SelectSeq(KeyOrder, LAMBDA k : k \in keys)

\* mirror after source.iterate_keys(...) listed or raised (listed)
mirror_listed(c, its, tg, t, listed, overwrite) ==
    IF listed.exc # "none" THEN [tg |-> tg, exc |-> listed.exc]
    ELSE mirror_loop(c, its, [tg |-> tg, exc |-> "none"], t,
                     InKeyOrder(listed.ret), overwrite)

\* mirror(source, target, glob=glob, overwrite=overwrite)
mirror(c, its, ds, tg, t, glob, overwrite) ==
    mirror_listed(c, its, tg, t, iterate_keys(c, its, ds, <<>>, <<>>, glob), overwrite)

(***************************************************************************)
(* The mirror specification: values are put into the source and into the   *)
(* target, and the source is mirrored with and without overwrite.          *)
(***************************************************************************)
MirrorSourceKeys == {<<"x">>, <<"y">>}
MirrorTargetKeys == {<<"x">>, <<"y", SLASH, "x">>}

\* target.put(key, "str")
TargetPut(key) ==
    /\ target' = [target EXCEPT
                     !.items = put(target.c, target.items, now, key, "str", 0).items,
                     !.dirs = put_made(target.c, target.dirs, key, "str")]
    /\ last' = Call("target.put", key, "str",
                    put(target.c, target.items, now, key, "str", 0))
    /\ UNCHANGED <<cfg, items, dirs, now, scope, threads, cachevars, writer, rate,
                   lines, keyvars>>

Mirrored(glob, overwrite, r) ==
    /\ target' = r.tg
    /\ last' = [op |-> "mirror", key |-> glob, arg |-> overwrite, exc |-> r.exc,
                ret |-> NONE]
    /\ UNCHANGED <<cfg, items, dirs, now, scope, threads, cachevars, writer, rate,
                   lines, keyvars>>

Mirror(glob, overwrite) ==
    Mirrored(glob, overwrite, mirror(cfg, items, dirs, target, now, glob, overwrite))

MirrorNext ==
    \/ \E key \in MirrorSourceKeys : Put(key, "bytes", 0)
    \/ \E key \in MirrorTargetKeys : TargetPut(key)
    \/ \E glob \in {<<>>, <<STAR>>}, overwrite \in BOOLEAN : Mirror(glob, overwrite)

MirrorInit ==
    /\ cfg \in [store : StoreBackends, default_ttl : {0},
                raise_on_nonexist : BOOLEAN, store_none_values : {TRUE}]
    /\ items = NoItems
    /\ dirs = {}
    /\ now = 0
    /\ last = NoCall
    /\ scope = NoScope
    /\ threads = NoThreads
    /\ cached = Uncached(FALSE)
    /\ store_cache = NoStoreCache
    /\ writer = NoWriter
    /\ rate = NoRate
    /\ lines = NoLines
    /\ target \in {TargetOn(store) : store \in StoreBackends \ {cfg.store}}
    /\ KeyIdle

MirrorSpec == MirrorInit /\ [][MirrorNext]_vars

(***************************************************************************)
(* anystore/interface/rate_limit.py: RateLimit. The store of the resource  *)
(* holds one count per time slot under the key rate/<resource>/<slot>;     *)
(* counts maps the slots that hold a count to it. The store has no ttl and *)
(* does not raise on a key that is not there (__init__ sets                *)
(* raise_on_nonexist to False).                                            *)
(***************************************************************************)
\* self.limit = max(0.1, limit), in tenths
rate_limit_tenths(limit) == IF 10 * limit > 1 THEN 10 * limit ELSE 1
\* self.interval = max(1, interval)
rate_interval(interval) == IF interval > 1 THEN interval ELSE 1

\* RateLimit.__init__
rate_limit_new(limit, interval) ==
    RateOf(rate_limit_tenths(limit), rate_interval(interval))

\* RateLimit._time at the clock t: int(time.time() / self.unit)
rate_time(rt, t) == t \div rt.unit

\* RateLimit._keys at the clock t: the slots base .. base + interval - 1
rate_keys(rt, t) == [i \in 1..rt.interval |-> rate_time(rt, t) + i - 1]

\* self.store.get(key) of the key of a slot: None when nothing is stored
rate_store_get(counts, slot) ==
    IF slot \in DOMAIN counts THEN [none |-> FALSE, val |-> counts[slot]]
    ELSE [none |-> TRUE, val |-> 0]

\* self.store.put(key, value) of the key of a slot
rate_store_put(counts, slot, value) ==
    [s \in DOMAIN counts \cup {slot} |-> IF s = slot THEN value ELSE counts[s]]

\* current = self.store.get(key) or 0
update_current(counts, slot) ==
    IF rate_store_get(counts, slot).none THEN 0 ELSE rate_store_get(counts, slot).val

\* an update whose result is the new value of the last slot
update_put_latest(r, slot, amount, current) ==
    [counts |-> rate_store_put(r.counts, slot, current + amount),
     ret |-> current + amount]

\* update, one key, after current was read: new_value is stored, and is the
\* result when the result is still 0
update_put(r, slot, amount, current) ==
    [counts |-> rate_store_put(r.counts, slot, current + amount),
     ret |-> IF r.ret = 0 THEN current + amount ELSE r.ret]

\* the loop of update over the keys
RECURSIVE update_loop(_, _, _)
update_loop(r, keys, amount) ==
    IF keys = <<>> THEN r
    ELSE update_loop(update_put(r, Head(keys), amount, update_current(r.counts, Head(keys))),
                     Tail(keys), amount)

\* RateLimit.update(amount) at the clock t, run alone: [counts, ret]
rate_update(rt, t, amount) ==
    update_loop([counts |-> rt.counts, ret |-> 0], rate_keys(rt, t), amount)

\* RateLimit.get() after self.store.get(key) returned value
rate_get_value(value) == IF value.none THEN 0 ELSE value.val

\* RateLimit.get() at the clock t
rate_get(rt, t) == rate_get_value(rate_store_get(rt.counts, rate_time(rt, t)))

\* RateLimit.check() at the clock t: self.get() < self.limit
rate_check(rt, t) == 10 * rate_get(rt, t) < rt.limit

(***************************************************************************)
(* The rate limit specification: one caller updates, reads and checks a    *)
(* RateLimit while the clock runs.                                         *)
(***************************************************************************)
\* the limit and interval arguments, and the amounts of an update
RateLimits == 0..MaxTokens
RateIntervals == 0..MaxTime
RateAmounts == 0..MaxTime

RateReturns(op, arg, ret) ==
    /\ last' = [op |-> op, key |-> <<>>, arg |-> arg, exc |-> "none", ret |-> ret]
    /\ UNCHANGED <<cfg, items, dirs, now, scope, threads, cachevars, writer, target,
                   lines, keyvars>>

RateUpdated(amount, r) ==
    /\ rate' = [rate EXCEPT !.counts = r.counts,
                            !.done = Append(@, [slot |-> rate_time(rate, now),
                                                amount |-> amount])]
    /\ RateReturns("rate.update", amount, r.ret)

RateUpdate(amount) ==
    /\ Len(rate.done) < MaxTokens
    /\ RateUpdated(amount, rate_update(rate, now, amount))

RateGet ==
    /\ rate' = rate
    /\ RateReturns("rate.get", NONE, rate_get(rate, now))

RateCheck ==
    /\ rate' = rate
    /\ RateReturns("rate.check", NONE, rate_check(rate, now))

RateNext ==
    \/ \E amount \in RateAmounts : RateUpdate(amount)
    \/ RateGet
    \/ RateCheck
    \/ Tick

RateInit ==
    /\ cfg = IdleCfg
    /\ items = NoItems
    /\ dirs = {}
    /\ now = 0
    /\ last = NoCall
    /\ scope = NoScope
    /\ threads = NoThreads
    /\ cached = Uncached(FALSE)
    /\ store_cache = NoStoreCache
    /\ writer = NoWriter
    /\ target = TargetOn(MemoryStore)
    /\ lines = NoLines
    /\ rate \in {rate_limit_new(limit, interval) :
                    limit \in RateLimits, interval \in RateIntervals}
    /\ KeyIdle

RateSpec == RateInit /\ [][RateNext]_vars

(***************************************************************************)
(* The concurrent rate limit specification: the workers call update() on   *)
(* one RateLimit within one time slot. A worker reads the count of a key   *)
(* (store.get) and writes the new one (store.put) in two steps; nothing in *)
(* update or in Store.put holds a lock between them.                       *)
(***************************************************************************)
\* worker t enters update(amount): result = 0, the keys are listed
update_begin(rt, t, now_, amount) ==
    [rt EXCEPT !.w[t] = [pc |-> "get", keys |-> rate_keys(rt, now_), amount |-> amount,
                         current |-> 0, result |-> 0]]

\* worker t: current = self.store.get(key) or 0
update_read(rt, t) ==
    [rt EXCEPT !.w[t].current = update_current(rt.counts, Head(rt.w[t].keys)),
               !.w[t].pc = "put"]

\* worker t after self.store.put(key, new_value) left r = [counts, ret]: the
\* next key, or the return
update_written(rt, t, now_, r) ==
    IF Tail(rt.w[t].keys) = <<>>
    THEN [rt EXCEPT !.counts = r.counts,
                    !.w[t] = [IdleWorker EXCEPT !.result = r.ret],
                    !.done = Append(@, [slot |-> rate_time(rt, now_),
                                        amount |-> rt.w[t].amount])]
    ELSE [rt EXCEPT !.counts = r.counts,
                    !.w[t].keys = Tail(@),
                    !.w[t].result = r.ret,
                    !.w[t].pc = "get"]

\* worker t: self.store.put(key, int(current) + amount)
update_write(rt, t, now_) ==
    update_written(rt, t, now_,
                   update_put([counts |-> rt.counts, ret |-> rt.w[t].result],
                              Head(rt.w[t].keys), rt.w[t].amount, rt.w[t].current))

\* the updates that were begun
Begun(rt) == Len(rt.done) + Cardinality({t \in Threads : rt.w[t].pc # "idle"})

RateWorker(rt) ==
    /\ rate' = rt
    /\ UNCHANGED <<cfg, items, dirs, now, last, scope, threads, cachevars, writer, target,
                   lines, keyvars>>

UpdateBegin(t, amount) ==
    /\ rate.w[t].pc = "idle"
    /\ Begun(rate) < MaxTokens
    /\ RateWorker(update_begin(rate, t, now, amount))

UpdateRead(t) ==
    /\ rate.w[t].pc = "get"
    /\ RateWorker(update_read(rate, t))

UpdateWrite(t) ==
    /\ rate.w[t].pc = "put"
    /\ RateWorker(update_write(rate, t, now))

RateThreadNext ==
    \/ \E t \in Threads, amount \in RateAmounts \ {0} : UpdateBegin(t, amount)
    \/ \E t \in Threads : UpdateRead(t)
    \/ \E t \in Threads : UpdateWrite(t)

RateThreadSpec == RateInit /\ [][RateThreadNext]_vars

(***************************************************************************)
(* anystore/logic/io.py: iter_lines. The content of a handle is a sequence *)
(* of bytes; a line ends with the newline byte.                            *)
(***************************************************************************)
NL == "\n"
\* the bytes bytes.strip() removes (of those of the model)
Whitespace == {SPACE, NL}

RECURSIVE bytes_lstrip(_)
bytes_lstrip(s) ==
    IF s # <<>> /\ Head(s) \in Whitespace THEN bytes_lstrip(Tail(s)) ELSE s
RECURSIVE bytes_rstrip(_)
bytes_rstrip(s) ==
    IF s # <<>> /\ s[Len(s)] \in Whitespace THEN bytes_rstrip(SubSeq(s, 1, Len(s) - 1))
    ELSE s
\* line.strip()
bytes_strip(s) == bytes_rstrip(bytes_lstrip(s))

\* the place of the first newline of s, Len(s) + 1 when it has none
RECURSIVE first_newline(_)
first_newline(s) ==
    IF s = <<>> \/ Head(s) = NL THEN 1 ELSE 1 + first_newline(Tail(s))
has_newline(s) == first_newline(s) <= Len(s)

\* fh.readline() at position pos: up to and with the next newline, or to the
\* end; empty at the end
readline(data, pos) ==
    SubSeq(data, pos + 1, Min(pos + first_newline(DropFirst(data, pos)), Len(data)))

\* iter_lines for a seekable handle: while line := fh.readline(): yield
\* line.strip()
RECURSIVE iter_lines_readline(_, _, _)
iter_lines_readline(data, pos, out) ==
    IF readline(data, pos) = <<>> THEN out
    ELSE iter_lines_readline(data, pos + Len(readline(data, pos)),
                             Append(out, bytes_strip(readline(data, pos))))

\* if line.strip(): yield line.strip()
yield_stripped(out, line) ==
    IF bytes_strip(line) # <<>> THEN Append(out, bytes_strip(line)) ELSE out

\* while sep in buf: line, buf = buf.split(sep, 1); ...
RECURSIVE split_buf(_)
split_buf(r) ==
    IF ~has_newline(r.buf) THEN r
    ELSE split_buf([buf |-> DropFirst(r.buf, first_newline(r.buf)),
                    out |-> yield_stripped(r.out,
                                           SubSeq(r.buf, 1, first_newline(r.buf) - 1))])

\* _iter_lines_chunked from position pos with r = [buf, out]
RECURSIVE iter_lines_chunked_loop(_, _, _, _)
iter_lines_chunked_loop(data, chunk_size, pos, r) ==
    IF io_read(data, pos, chunk_size) = <<>> THEN yield_stripped(r.out, r.buf)
    ELSE iter_lines_chunked_loop(data, chunk_size,
                                 pos + Len(io_read(data, pos, chunk_size)),
                                 split_buf([buf |-> r.buf \o io_read(data, pos, chunk_size),
                                            out |-> r.out]))

\* _iter_lines_chunked(fh, chunk_size)
iter_lines_chunked(data, chunk_size) ==
    iter_lines_chunked_loop(data, chunk_size, 0, [buf |-> <<>>, out |-> <<>>])

\* list(iter_lines(fh, chunk_size)) for a handle over data that can seek or
\* cannot
iter_lines(data, chunk_size, seekable) ==
    IF seekable THEN iter_lines_readline(data, 0, <<>>)
    ELSE iter_lines_chunked(data, chunk_size)

(***************************************************************************)
(* The lines specification: iter_lines is run to its end over one content, *)
(* on a handle that can seek and on one that cannot.                       *)
(***************************************************************************)
LineBytes == {"a", SPACE, NL}
RECURSIVE ContentsOf(_)
ContentsOf(n) ==
    IF n = 0 THEN {<<>>}
    ELSE ContentsOf(n - 1)
           \cup {Append(s, b) : s \in {c \in ContentsOf(n - 1) : Len(c) = n - 1},
                                b \in LineBytes}
LineContents == ContentsOf(MaxTokens)

IterLines(seekable) ==
    /\ seekable \notin lines.ran
    /\ lines' = [lines EXCEPT
                    !.ran = @ \cup {seekable},
                    !.out[seekable] = iter_lines(lines.content, lines.chunk_size, seekable)]
    /\ UNCHANGED <<cfg, items, dirs, now, last, scope, threads, cachevars, writer, target,
                   rate, keyvars>>

LinesNext == \E seekable \in BOOLEAN : IterLines(seekable)

LinesInit ==
    /\ cfg = IdleCfg
    /\ items = NoItems
    /\ dirs = {}
    /\ now = 0
    /\ last = NoCall
    /\ scope = NoScope
    /\ threads = NoThreads
    /\ cached = Uncached(FALSE)
    /\ store_cache = NoStoreCache
    /\ writer = NoWriter
    /\ target = TargetOn(MemoryStore)
    /\ rate = NoRate
    /\ lines \in {LinesOf(content, chunk_size) :
                     content \in LineContents, chunk_size \in ChunkSizes}
    /\ KeyIdle

LinesSpec == LinesInit /\ [][LinesNext]_vars

(***************************************************************************)
(* Properties of the key mapping (checked under KeySpec)                   *)
(***************************************************************************)
TRAVERSAL == <<DOT, DOT, SLASH>>

\* the key is already what validation makes of it
Normalised(key) == validate_relative_uri(key) = Ok(key)

\* the key prefix of the store holds no "%", no surrounding blank, and gives
\* no "../" once a key is joined to it
PlainPrefix(store) ==
    /\ ~Contains(key_prefix(store), <<PERCENT>>)
    /\ StripWs(key_prefix(store)) = key_prefix(store)
    /\ ~Contains(key_prefix(store) \o <<SLASH>>, TRAVERSAL)

C2_TraversalRejected ==
    (kpc \in {"mapped", "coremapped"} /\ Contains(kin, TRAVERSAL))
        => (~kfs.ok /\ kfs.exc = "ValueError" /\ kfs.msg = "traversal" /\ kfs.val = <<>>)

\* to_fs_key has run on "x/../"
C2_Witness ==
    /\ kpc = "mapped"
    /\ kin = <<"x", SLASH, DOT, DOT, SLASH>>
    /\ kfs.msg = "traversal"

\* C3 as stated: no backend key that to_fs_key returns has a ".." segment.
C3_NoParentSegment ==
    (kpc \in {"mapped", "coremapped"} /\ kfs.ok)
        => \A i \in 1..Len(Split(kfs.val, SLASH)) : Split(kfs.val, SLASH)[i] # <<DOT, DOT>>

WithDotSegment(key, i) == SubSeq(key, 1, i) \o <<DOT, SLASH>> \o DropFirst(key, i)

\* the key, once decoded, has no empty segment ("//")
NoEmptySegment(key) ==
    ~Contains(unquote(unquote(StripWs(key))), <<SLASH, SLASH>>)

\* C5: to_fs_key(".") returns exactly key_prefix (the empty string for SQL);
\* no backend key that to_fs_key returns has a "." segment; and a "." segment
\* put between two parts of a key (one without empty segments) does not
\* change the result: "foo/./bar" maps as "foo/bar".
C5_DotSentinel ==
    kpc = "mapped"
        => /\ kin = <<DOT>> => (kfs = Ok(key_prefix(kstore))
                                 /\ (kstore.fs = "sql" => kfs.val = <<>>))
           /\ kfs.ok => \A i \in 1..Len(Split(kfs.val, SLASH)) :
                            Split(kfs.val, SLASH)[i] # CURRENT
           /\ NoEmptySegment(kin)
                 => \A i \in 2..(Len(kin) - 1) :
                       kin[i] = SLASH => to_fs_key(kstore, WithDotSegment(kin, i)) = kfs

\* to_fs_key(".") has run on the http store
C5_Witness ==
    /\ kpc = "mapped"
    /\ kin = <<DOT>>
    /\ kstore = HttpStore
    /\ kfs = Ok(HttpStore.uri)

\* C6 as stated: for every key that to_fs_key accepts, the URL-encoded key
\* maps to the same backend key.
C6_QuotedSame ==
    (kpc = "mapped" /\ kfs.ok) => to_fs_key(kstore, quote(kin)) = kfs

\* C6 amended: for every key that to_fs_key accepts, that has no leading or
\* trailing whitespace and that one URL-decoding decodes completely, the
\* URL-encoded key maps to the same backend key.
C6_QuotedSamePlain ==
    (kpc = "mapped" /\ kfs.ok /\ StripWs(kin) = kin /\ unquote(unquote(kin)) = unquote(kin))
        => to_fs_key(kstore, quote(kin)) = kfs

\* to_fs_key has run on "x x", whose URL-encoding is "x%20x"
C6_Witness ==
    /\ kpc = "mapped"
    /\ kin = <<"x", SPACE, "x">>
    /\ kfs.ok
    /\ quote(kin) = <<"x", "%", "2", "0", "x">>
    /\ to_fs_key(kstore, quote(kin)) = kfs

\* the backend key as from_fs_key compares it with the prefix
Reported(store, key) ==
    IF store.fs = "memory" THEN LStripCh(validate_uri(key).val, SLASH)
    ELSE validate_uri(key).val

\* C7 as stated: from_fs_key raises ValueError for every backend key that is
\* neither key_prefix nor key_prefix + "/" + remainder.
C7_ForeignKeyRejected ==
    (/\ kpc = "listed"
     /\ key_prefix(kstore) # <<>>
     /\ validate_uri(kin).ok
     /\ Reported(kstore, kin) # key_prefix(kstore)
     /\ ~StartsWith(Reported(kstore, kin), key_prefix(kstore) \o <<SLASH>>))
        => (~krel.ok /\ krel.exc = "ValueError")

(***************************************************************************)
(* Properties of the Store (checked under Spec)                            *)
(***************************************************************************)
\* the Store accepts the key
ValidKey(key) == keys_to_fs_key(cfg.store, key).ok

\* the last write of the item under the key happened in this very second,
\* and nothing has removed the item since
JustPut(key) ==
    /\ ValidKey(key)
    /\ Present(items, PathOf(key))
    /\ items[PathOf(key)].putat = now

\* what raise_on_nonexist resolved to in the last call
LastRaises ==
    IF last.arg = "default" THEN cfg.raise_on_nonexist ELSE last.arg = "true"

\* C8 as stated, in its weakest reading: a get(k) in the same second as the
\* last put(k, v), with no delete or pop of k in between, returns v (also when
\* the put overwrote an older value), on every backend.
C8_PutThenGet ==
    [][(last'.op = "get" /\ now' = now /\ JustPut(last'.key))
          => (last'.exc = "none"
              /\ last'.ret = from_store(items[PathOf(last'.key)].data))]_vars

\* C9 as stated, in its weakest reading: a pop(k) in the same second as the
\* last put(k, v) returns v and removes the item, so that exists(k) is false
\* and get(k, raise_on_nonexist=False) is null, and every other item stays.
C9_PutThenPop ==
    [][(last'.op = "pop" /\ now' = now /\ JustPut(last'.key))
          => (/\ last'.exc = "none"
              /\ last'.ret = from_store(items[PathOf(last'.key)].data)
              /\ ~Present(items', PathOf(last'.key))
              /\ exists(cfg, items', dirs', now, last'.key).ret = "False"
              /\ get(cfg, items', now, last'.key, "false").ret = NONE
              /\ \A p \in (DOMAIN items) \ {PathOf(last'.key)} :
                    Present(items', p) /\ items'[p] = items[p])]_vars

\* C10 as stated: a get of a well-formed key that finds no item raises
\* DoesNotExist when raise_on_nonexist resolves to true and returns null when
\* it resolves to false, on every backend, with or without default_ttl.
C10_GetAbsent ==
    (last.op = "get" /\ ValidKey(last.key) /\ ~Present(items, PathOf(last.key)))
        => IF LastRaises THEN last.exc = "DoesNotExist"
           ELSE last.exc = "none" /\ last.ret = NONE


\* C11 as stated: stream(key) on a missing key yields nothing and returns
\* cleanly when raise_on_nonexist=False is given, whatever the store default;
\* it raises DoesNotExist when True is given, or nothing is given and the
\* store default is true.
C11_StreamMissing ==
    (last.op = "stream" /\ ValidKey(last.key) /\ ~Present(items, PathOf(last.key)))
        => /\ last.arg = "false" => (last.exc = "none" /\ last.ret = NONE)
           /\ (last.arg = "true" \/ (last.arg = "default" /\ cfg.raise_on_nonexist))
                 => last.exc = "DoesNotExist"


\* C12 as stated: pop(key, raise_on_nonexist=False) on an absent key returns
\* null, raises nothing and leaves the store unchanged, on every backend.
C12_PopAbsentSilent ==
    [][(/\ last'.op = "pop"
        /\ last'.arg = "false"
        /\ now' = now
        /\ ValidKey(last'.key)
        /\ ~Present(items, PathOf(last'.key)))
          => (last'.exc = "none" /\ last'.ret = NONE /\ items' = items)]_vars


\* C13 as stated: delete(key) removes the item, so that exists(key) is false
\* afterwards; on an absent key it raises a not-found error on every backend
\* when ignore_errors is false and raises nothing when ignore_errors is true.
C13_Delete ==
    [][(last'.op = "delete" /\ now' = now /\ ValidKey(last'.key))
          => (/\ Present(items, PathOf(last'.key))
                    => (/\ last'.exc = "none"
                        /\ ~Present(items', PathOf(last'.key))
                        /\ exists(cfg, items', dirs', now, last'.key).ret = "False")
              /\ (~Present(items, PathOf(last'.key)) /\ last'.arg = "false")
                    => last'.exc = "FileNotFoundError"
              /\ last'.arg = "true" => last'.exc = "none")]_vars


\* C15 as stated: with default_ttl = T on every backend, a get right after
\* the put returns the value put; more than T seconds after the put,
\* get(key, raise_on_nonexist=False) returns null and exists(key) is false.
C15_DefaultTtlExpires ==
    [][(/\ cfg.default_ttl # 0
        /\ last'.op = "get"
        /\ now' = now
        /\ ValidKey(last'.key)
        /\ Present(items, PathOf(last'.key)))
          => (/\ now = items[PathOf(last'.key)].putat
                    => (/\ last'.exc = "none"
                        /\ last'.ret = from_store(items[PathOf(last'.key)].data))
              /\ (now - items[PathOf(last'.key)].putat > cfg.default_ttl
                        /\ last'.arg = "false")
                    => (/\ last'.exc = "none"
                        /\ last'.ret = NONE
                        /\ exists(cfg, items', dirs', now, last'.key).ret = "False"))]_vars

\* C16 as stated: with default_ttl = T an item is not treated as expired until
\* more than T seconds have passed since the most recent put of its key;
\* overwriting a key starts its age again.
C16_AgeFromLastPut ==
    [][(/\ cfg.default_ttl # 0
        /\ last'.op \in {"get", "exists"}
        /\ now' = now
        /\ ValidKey(last'.key)
        /\ Present(items, PathOf(last'.key))
        /\ now - items[PathOf(last'.key)].putat <= cfg.default_ttl)
          => (/\ last'.exc = "none"
              /\ items' = items
              /\ last'.op = "get" => last'.ret = from_store(items[PathOf(last'.key)].data)
              /\ last'.op = "exists" => last'.ret = "True")]_vars

\* C17 as stated: on Redis and SQL, with no default_ttl, an item put with
\* ttl = t is treated as absent by get and exists once more than t seconds
\* have passed since the put.
C17_PutTtlHonoured ==
    [][(/\ cfg.store.fs \in {"redis", "sql"}
        /\ cfg.default_ttl = 0
        /\ last'.op \in {"get", "exists"}
        /\ now' = now
        /\ ValidKey(last'.key)
        /\ Present(items, PathOf(last'.key))
        /\ items[PathOf(last'.key)].asked # 0
        /\ now - items[PathOf(last'.key)].putat > items[PathOf(last'.key)].asked)
          => (/\ last'.op = "get" => last'.exc = "DoesNotExist" \/ last'.ret = NONE
              /\ last'.op = "exists" => last'.ret = "False")]_vars

(***************************************************************************)
(* Properties of the calls at a fixed time (checked under CallSpec)        *)
(***************************************************************************)
\* the operations that take a key
KeyOps == {"get", "put", "pop", "delete", "exists", "info", "checksum", "open", "touch"}

\* a call of one of these operations with a key that is not valid ends
InvalidKeyCall ==
    /\ last'.op \in KeyOps
    /\ last'.key \in InvalidKeys

\* the call was put(key, None) on a store that does not store None
NonePutSkipped ==
    /\ last'.op = "put"
    /\ last'.arg = NONE
    /\ ~cfg.store_none_values

C18_NonePutNoop ==
    [][(last'.op = "put" /\ last'.arg = NONE /\ ~cfg.store_none_values)
          => (/\ last'.exc = "none"
              /\ items' = items
              /\ dirs' = dirs
              /\ ValidKey(last'.key)
                    => exists(cfg, items', dirs', now, last'.key).ret
                          = exists(cfg, items, dirs, now, last'.key).ret)]_vars

\* put(key, None) was called on such a store while the key held a value
C18_Witness ==
    /\ last.op = "put"
    /\ last.arg = NONE
    /\ ~cfg.store_none_values
    /\ ValidKey(last.key)
    /\ Present(items, PathOf(last.key))
    /\ items[PathOf(last.key)].data = to_store("bytes")


(***************************************************************************)
(* Properties of the listing (checked under ListSpec)                      *)
(***************************************************************************)
\* the relative keys of the stored items
StoredKeys == {k \in ListKeys : Present(items, PathOf(k))}

\* the key lies under the prefix (none: every key does)
UnderPrefix(key, prefix) == prefix = <<>> \/ StartsWith(key, prefix \o <<SLASH>>)

\* the key as seen from the search base
RelativeTo(key, prefix) ==
    IF prefix = <<>> THEN key ELSE DropFirst(key, Len(prefix) + 1)

\* the keys iterate_keys(prefix, exclude_prefix, glob) is to yield
Selected(prefix, exclude_prefix, glob) ==
    {k \in StoredKeys :
        /\ UnderPrefix(k, prefix)
        /\ glob = <<>> \/ glob_match(Split(glob, SLASH), Split(RelativeTo(k, prefix), SLASH))
        /\ exclude_prefix = <<>> \/ ~StartsWith(k, exclude_prefix)}

\* C19 as stated: iterate_keys(prefix=p, exclude_prefix=e, glob=g) yields
\* exactly the relative keys of the stored items under p that match g relative
\* to the search base and do not start with e: no directory name, no key
\* outside p, no key of another store; on every backend.
C19_ListsExactly ==
    last.op = "iterate_keys"
        => /\ last.exc = "none"
           /\ last.ret = Selected(last.key, last.arg[1], last.arg[2])

\* nothing is stored at or under the search base
BaseMissing(prefix) ==
    /\ \A k \in StoredKeys : ~UnderPrefix(k, prefix)
    /\ prefix \notin StoredKeys

C21_ListedKeysExist ==
    [][(last'.op = "iterate_keys" /\ now' = now /\ last'.exc = "none")
          => \A k \in last'.ret :
                /\ ValidKey(k)
                /\ exists(cfg, items', dirs', now, k).ret = "True"]_vars


(***************************************************************************)
(* Properties of local_path and local_open (checked under LocalPathSpec)   *)
(***************************************************************************)
\* C22 as stated: for a store that is not local, the temporary store of
\* local_path is gone on every way out of the scope: a normal end, an
\* exception of the caller's body, a failure while downloading.
C22_TmpRemovedOnExit ==
    (cfg.store.fs # "local" /\ scope.pc = "done") => scope.tmp # "made"


Unexpired(t) ==
    cfg.default_ttl = 0 \/ now - threads[t].putat <= cfg.default_ttl

\* C24: threads put and get concurrently, each on a key of its own. What a
\* get returned is a complete value that was put to the key of the thread,
\* never one of another key; and when no put is under way, get(k) returns
\* the value last put to k (while that put is not older than the ttl).
C24_DisjointKeysKept ==
    /\ \A t \in Threads :
          (threads[t].exc = "none" /\ threads[t].got # NONE)
             => threads[t].got \in threads[t].puts
    /\ (\A u \in Threads : threads[u].pc = "idle")
          => \A t \in Threads :
                (threads[t].put # NONE /\ Unexpired(t))
                   => get(cfg, items, now, ThreadKey(t), "false").ret = threads[t].put


(***************************************************************************)
(* Properties of the cached properties (checked under CacheSpec)           *)
(***************************************************************************)
\* C25: under concurrent first access to _fs, _keys and key_prefix a value
\* once cached is never replaced by another one, and all threads are handed
\* the same value.
C25_CachedOnce ==
    [][/\ \A a \in Slots : cached.slot[a].set => cached'.slot[a] = cached.slot[a]
       /\ \A t, u \in Threads, n \in CachedNames :
             (cached'.seen[t][n].set /\ cached'.seen[u][n].set)
                => cached'.seen[t][n].val = cached'.seen[u][n].val]_vars


(***************************************************************************)
(* Properties of the configuration (checked under ConfigSpec)              *)
(***************************************************************************)
\* C26: the configuration of a Store (uri, raise_on_nonexist, default_ttl,
\* store_none_values) is the same after every step: no Store call changes
\* it, nor does building a RateLimit over the store.
C26_ConfigFixed == [][cfg' = cfg]_vars


StoredBytes == items[PathOf(<<"x">>)].data

\* bytes a..b of data, both inclusive, counted from 0
BytesOf(data, a, b) == SubSeq(data, a + 1, b + 1)

\* a GET with this Range header was answered and the key held a value
RangeGet(header) ==
    /\ last'.op = "GET"
    /\ last'.arg = header
    /\ Present(items, PathOf(<<"x">>))

\* C28: for a stored value of N bytes, GET with Range: bytes=a-b (a <= b)
\* answers 206 with the bytes a..min(b, N-1) and the header Content-Range:
\* bytes a-min(b,N-1)/N; bytes=-s answers the last min(s, N) bytes; bytes=a-
\* answers the bytes a..N-1.
C28_RangeExact ==
    [][/\ \A a, b \in RangeNums :
             (a <= b /\ RangeGet(RangeClosed(a, b)))
                => /\ last'.ret.status = 206
                   /\ last'.ret.body
                         = BytesOf(StoredBytes, a, Min(b, Len(StoredBytes) - 1))
                   /\ last'.ret.content_range
                         = content_range(a, Min(b, Len(StoredBytes) - 1),
                                         Len(StoredBytes))
       /\ \A n \in RangeNums :
             RangeGet(RangeSuffix(n))
                => /\ last'.ret.status = 206
                   /\ last'.ret.body
                         = BytesOf(StoredBytes,
                                   Len(StoredBytes) - Min(n, Len(StoredBytes)),
                                   Len(StoredBytes) - 1)
       /\ \A a \in RangeNums :
             RangeGet(RangeOpen(a))
                => /\ last'.ret.status = 206
                   /\ last'.ret.body = BytesOf(StoredBytes, a, Len(StoredBytes) - 1)]_vars

\* a range that ends beyond the value was asked of a value of three bytes,
\* and the value was answered from its second byte to its last
C28_Witness ==
    /\ last.op = "GET"
    /\ last.arg = RangeClosed(1, MaxTokens)
    /\ Present(items, PathOf(<<"x">>))
    /\ Len(StoredBytes) = 3
    /\ last.ret.status = 206
    /\ last.ret.body = <<"b", "c">>


\* what parse_range made of the Range header of the GET that ends
ParsedRange == parse_range(last'.arg, Len(StoredBytes))

\* C34: for every Range header parse_range accepts and every size N of the
\* stored value, 0 <= start <= end <= N-1, and the Content-Length of the 206
\* response, end - start + 1, is positive and is the number of bytes of the
\* body.
C34_RangeWithinValue ==
    [][(last'.op = "GET" /\ last'.ret.status = 206
          /\ Present(items, PathOf(<<"x">>)))
          => /\ 0 <= ParsedRange.val[1]
             /\ ParsedRange.val[1] <= ParsedRange.val[2]
             /\ ParsedRange.val[2] <= Len(StoredBytes) - 1
             /\ range_length(ParsedRange) > 0
             /\ range_length(ParsedRange) = Len(last'.ret.body)]_vars


(***************************************************************************)
(* Properties of the HTTP surface (checked under ApiSpec)                  *)
(***************************************************************************)
\* no value is stored under the key: it is absent, or only a folder
NotStored(key) == ~Present(items, PathOf(key))

\* C29: a GET or DELETE of a key that holds no value, be it absent or only
\* the folder of other keys, is answered 404, and every 404 answer to GET,
\* DELETE, PATCH and POST /_list has the JSON body {"detail": message}.
C29_NotFoundIs404 ==
    [][/\ (last'.op \in {"GET", "DELETE"} /\ NotStored(last'.key))
             => (last'.ret.status = 404 /\ last'.ret.json)
       /\ (last'.op \in {"GET", "DELETE", "PATCH", "LIST"} /\ last'.ret.status = 404)
             => last'.ret.json]_vars

\* C30: DELETE of a key that holds a value is answered 204 and a GET of the
\* key is answered 404 afterwards; DELETE of a key that holds none is
\* answered 404 and changes nothing in the store; and no DELETE is answered
\* 204 unless it removed the value of the key.
C30_DeleteRemoves ==
    [][last'.op = "DELETE"
          => /\ ~NotStored(last'.key)
                   => /\ last'.ret.status = 204
                      /\ api_get(cfg, items', last'.key, <<>>).ret.status = 404
             /\ NotStored(last'.key)
                   => (last'.ret.status = 404 /\ items' = items)
             /\ last'.ret.status = 204
                   => (~NotStored(last'.key) /\ ~Present(items', PathOf(last'.key)))]_vars


(***************************************************************************)
(* Properties of checksum (checked under ChecksumSpec)                     *)
(***************************************************************************)
\* the digest of data computed in one update
Digest(algorithm, data) == hash_update(algorithm, hash_new(algorithm), data)

\* the algorithm a checksum call names
AlgorithmOf(arg) == IF arg = NONE THEN DEFAULT_HASH_ALGORITHM ELSE arg

C32_ResourceAddressesUri ==
    kpc = "mapped"
       => /\ kfs.ok
          /\ RStripCh(fs_location(kstore, kfs.val), SLASH)
                = RStripCh(uri_location(kin), SLASH)


(***************************************************************************)
(* Properties of the reading calls (checked under ReadSpec)                *)
(***************************************************************************)
\* the call that ends in this step is a reading one
ReadCall ==
    \/ last'.op \in {"get", "exists", "info", "checksum", "stream", "iterate_keys"}
    \/ (last'.op = "open" /\ last'.arg = "rb")

\* the item at path is older than the configured default_ttl
Expired(path) ==
    /\ cfg.default_ttl # 0
    /\ Present(items, path)
    /\ now - items[path].created > cfg.default_ttl

\* C33: get, exists, info, checksum, open for reading, stream and
\* iterate_keys leave every item and directory as it was, except that get
\* and exists remove the item of the key they are called with, and no
\* other, when default_ttl is configured and that item is expired.
C33_ReadsChangeNothing ==
    [][ReadCall
          => /\ dirs' = dirs
             /\ \/ items' = items
                \/ /\ last'.op \in {"get", "exists"}
                   /\ Expired(PathOf(last'.key))
                   /\ items' = Remove(items, PathOf(last'.key))]_vars

\* on a local store with default_ttl an item was put, as its directory
\* shows, a get of its key came two seconds later, and the item is gone
\* while the other item, as old, is still there
C33_Witness ==
    /\ cfg.store.fs = "local"
    /\ cfg.default_ttl = DefaultTtl
    /\ now = DefaultTtl + 1
    /\ last.op = "get"
    /\ last.key = <<"x">>
    /\ dirs # {}
    /\ ~Present(items, PathOf(<<"x">>))
    /\ Present(items, PathOf(<<"y", SLASH, "x">>))
    /\ items[PathOf(<<"y", SLASH, "x">>)].created = 0


(***************************************************************************)
(* Properties of the API write handle (checked under WriterSpec)           *)
(***************************************************************************)
\* the bytes of the data chunks among queue entries, in order
RECURSIVE ChunkBytes(_)
ChunkBytes(entries) ==
    IF entries = <<>> THEN <<>>
    ELSE Head(entries).data \o ChunkBytes(Tail(entries))

Sentinels(entries) == {i \in 1..Len(entries) : entries[i].eof}

\* C35: every byte written is enqueued once and in write order, buffered
\* bytes apart; the sentinel is enqueued once, by close, after the last
\* data chunk; close returns only when the PUT is over, with an exception
\* if it failed; and when close returns normally the body of the PUT is
\* exactly the bytes written.
C35_WriterStreamsAll ==
    /\ ChunkBytes(writer.enqueued) \o writer.buffer = writer.written
    /\ Sentinels(writer.enqueued) \subseteq {Len(writer.enqueued)}
    /\ writer.pc \in {"waiting", "closed"}
          => (Sentinels(writer.enqueued) # {} /\ writer.buffer = <<>>)
    /\ writer.pc \in {"none", "open"} => Sentinels(writer.enqueued) = {}
    /\ writer.pc = "closed"
          => /\ writer.task \in {"ok", "failed"}
             /\ writer.task = "failed" <=> writer.exc # "none"
             /\ writer.exc = "none" => writer.body = writer.written

\* a handle was written to in several calls that filled more than one
\* block, was closed without an exception, and the PUT held all the bytes
C35_Witness ==
    /\ writer.pc = "closed"
    /\ writer.exc = "none"
    /\ Len(writer.enqueued) >= 3
    /\ writer.written = <<"a", "b", "c", "a">>
    /\ writer.body = writer.written


(***************************************************************************)
(* Properties of mirror (checked under MirrorSpec)                         *)
(***************************************************************************)
\* the keys the source yields for the glob of the mirror call that ends
MirroredKeys == iterate_keys(cfg, items, dirs, <<>>, <<>>, last'.key).ret

\* C36: after a mirror call that completes, every key the source yields
\* exists in the target; the target holds the bytes of the source under it
\* when overwrite is true or the target held no value under it before, and
\* what it held before when overwrite is false and it held a value; the
\* source and every other item of the target are as before.
C36_MirrorCopies ==
    [][(last'.op = "mirror" /\ last'.exc = "none")
          => /\ \A k \in MirroredKeys :
                   /\ exists(target'.c, target'.items, target'.dirs, now, k).ret = "True"
                   /\ (last'.arg \/ ~Present(target.items, TargetPath(target, k)))
                         => /\ Present(target'.items, TargetPath(target, k))
                            /\ target'.items[TargetPath(target, k)].data
                                  = items[PathOf(k)].data
                   /\ (~last'.arg /\ Present(target.items, TargetPath(target, k)))
                         => /\ Present(target'.items, TargetPath(target, k))
                            /\ target'.items[TargetPath(target, k)]
                                  = target.items[TargetPath(target, k)]
             /\ items' = items
             /\ dirs' = dirs
             /\ \A p \in DOMAIN target.items \ {TargetPath(target, k) : k \in MirroredKeys} :
                   /\ Present(target'.items, p)
                   /\ target'.items[p] = target.items[p]
             /\ DOMAIN target'.items
                   \subseteq DOMAIN target.items
                               \cup {TargetPath(target, k) : k \in MirroredKeys}]_vars


(***************************************************************************)
(* Properties of the rate limit (checked under RateSpec)                   *)
(***************************************************************************)
\* the sum of the amounts of the updates made in the slots t - interval + 1 .. t
RECURSIVE WindowSum(_, _, _)
WindowSum(done, t, interval) ==
    IF done = <<>> THEN 0
    ELSE WindowSum(Tail(done), t, interval)
           + (IF Head(done).slot \in (t - interval + 1)..t THEN Head(done).amount ELSE 0)

\* the count of the current slot after the step, by the updates made
CountNow == WindowSum(rate'.done, now, rate.interval)

\* C37: in calls made one after another with unit 1, get() returns the sum
\* of the amounts of the updates made in the slots t - interval + 1 .. t,
\* update() returns the new count of the current slot, and check() is true
\* exactly when the count is below the limit the RateLimit holds.
C37_RateCounts ==
    [][(now' = now)
          => /\ (last'.op = "rate.get") => last'.ret = CountNow
             /\ (last'.op = "rate.update") => last'.ret = CountNow
             /\ (last'.op = "rate.check") => (last'.ret <=> (10 * CountNow < rate.limit))]_vars

\* a count is read that leaves out an update older than the interval and
\* holds two later ones
C37_Witness ==
    /\ last.op = "rate.get"
    /\ last.ret >= 2
    /\ \E i \in DOMAIN rate.done :
          /\ rate.done[i].amount > 0
          /\ rate.done[i].slot < now - rate.interval + 1
    /\ \E i, j \in DOMAIN rate.done :
          i # j /\ rate.done[i].slot = now /\ rate.done[j].slot = now


(***************************************************************************)
(* Properties of concurrent updates (checked under RateThreadSpec)         *)
(***************************************************************************)
\* C38: when the updates the workers made within one time slot have all
\* returned, the count of the current slot is the sum of their amounts.
C38_NoLostUpdate ==
    (\A t \in Threads : rate.w[t].pc = "idle")
        => rate_get(rate, now) = WindowSum(rate.done, now, rate.interval)


(***************************************************************************)
(* Properties of iter_lines (checked under LinesSpec)                      *)
(***************************************************************************)
\* C39: over the same content, iter_lines yields the same lines for a
\* handle that can seek and for one that cannot, whatever the chunk size.
C39_SameLines ==
    (lines.ran = BOOLEAN) => lines.out[TRUE] = lines.out[FALSE]

=============================================================================
